---------------------------- MODULE Spec2Model ----------------------------
(***************************************************************************)
(* Model of the scheduling, polling and delivery fan-out engine of         *)
(* autobot.py (class ThreeModeScheduler and background_poster).            *)
(*                                                                         *)
(* One asyncio event loop runs the background poster and the operator      *)
(* handlers.  A step of the model is the code that runs between two        *)
(* suspension points (an await that really suspends): the operator         *)
(* handlers modelled here are synchronous once they reach the scheduler,   *)
(* the poster suspends in gather, in the sleeps and in the bot's sends.    *)
(***************************************************************************)
EXTENDS Integers, Sequences, FiniteSets, TLC

(***************************************************************************)
(* Bounds of the model.                                                    *)
(***************************************************************************)
\* Destination ids the operator may name: 1..MaxChannels.
MaxChannels == 3
\* Rows the posts table ever receives (AUTOINCREMENT ids 1..MaxPosts).
MaxPosts == 3
\* The clock runs over 0..MaxTime.
MaxTime == 2
\* batch_size of send_to_all_channels.  The source uses 20 (autobot.py:223);
\* the model scales it down so that a fan-out over MaxChannels destinations
\* spans more than one batch.
batch_size == 2
\* auto_cleanup_minutes, the retention window, in clock units.  The source's
\* default is 30 minutes (autobot.py:55); it is a constructor parameter.
auto_cleanup_minutes == 1
\* The LIMIT of the due query.  The source uses 200 (autobot.py:249); the
\* model scales it down so that more posts can be due than one cycle takes.
due_limit == 2
\* cleanup_counter is not reset when cleanup_posted_content raises; the model
\* lets it grow to MaxCounter.
MaxCounter == 3
\* The duration_minutes the operator may give: -1..MaxDuration.
MaxDuration == 3
\* The largest batch size the operator enters.
MaxBatchSize == 2
\* The 2 seconds between the posts of a batch (schedule_batch_posts), in
\* units of the clock; scaled like the durations, whose minute is one unit.
two_seconds == 1

\* The number of entries of a schedule preview (5), scaled.
preview_limit == 2

\* The user ids updates come from: 1..MaxUsers.
MaxUsers == 2

(***************************************************************************)
(* Program constants.                                                      *)
(***************************************************************************)
\* send_to_channel(channel_id, max_retries=5)
max_retries == 5
\* wait_time = (attempt + 1) * 3
backoff_unit == 3
\* if cleanup_counter >= 2
cleanup_every == 2

Channels == 1..MaxChannels
Durations == -1..MaxDuration
BatchSizes == 1..MaxBatchSize
PostIds  == 1..MaxPosts
Times    == 0..MaxTime

\* SQL NULL of posts.posted_at; a set timestamp t is {t}.
NULL == {}

VARIABLES
  \* ---- the store (posts.db)
  channels,         \* table channels: rows in rowid order, [channel_id, active]
  posts,            \* table posts: id -> row
  seq,              \* sqlite_sequence of posts: the largest id ever assigned
  \* ---- the scheduler object
  channel_ids,      \* self.channel_ids
  posting_lock,     \* self.posting_lock is held
  user_sessions,    \* self.user_sessions[admin_id]: the operator's compose session
  outcome,          \* how the last compose handler ended: its reply, or the
                    \* exception that left it (history, not program state)
  preview,          \* the schedule preview of the confirmation prompt the
                    \* session is waiting on (history, not program state)
  \* ---- the clock (datetime.utcnow())
  now,
  \* ---- background_poster / process_due_posts / send_to_all_channels
  pc,               \* where the poster is suspended
  cleanup_counter,  \* background_poster's cleanup_counter
  cycle_posts,      \* process_due_posts' local `posts`: the fetched rows
  idx,              \* position of the for loop in cycle_posts (0: no cycle)
  range_len,        \* len(self.channel_ids) when range(...) was built
  i,                \* the batch loop's offset i
  tasks,            \* the send_to_channel coroutines of the current batch
  successful,       \* send_to_all_channels' local `successful`
  \* ---- observation of the current fan-out (history, not program state)
  dispatched,       \* channel -> number of send_to_channel calls created
  at_start,         \* the store's active set when the fan-out started
  stable,           \* channels active at the start and not removed since
  ok_returns,       \* number of the bot's sends that returned without raising
  updates,          \* post id -> number of "UPDATE posts SET posted = 1" run for it
  logged_error      \* what background_poster's except clause logged in the
                    \* loop's last iteration ("none": nothing, or a cycle is
                    \* running)

vars == << channels, posts, seq, channel_ids, posting_lock, user_sessions,
           outcome, preview, now, pc,
           cleanup_counter, cycle_posts, idx, range_len, i, tasks,
           successful, dispatched, at_start, stable, ok_returns, updates,
           logged_error >>

store_vars  == << channels, posts, seq, channel_ids >>
session_vars == << user_sessions, outcome, preview >>
poster_vars == << posting_lock, pc, cleanup_counter, cycle_posts, idx,
                  range_len, i, tasks, successful >>
obs_vars    == << dispatched, at_start, stable, ok_returns, updates,
                  logged_error >>

(***************************************************************************)
(* Helpers                                                                 *)
(***************************************************************************)
Range(s) == { s[k] : k \in DOMAIN s }

Min(a, b) == IF a <= b THEN a ELSE b

RECURSIVE SumSeq(_)
SumSeq(s) == IF s = << >> THEN 0 ELSE Head(s) + SumSeq(Tail(s))

\* s[a:b] of Python, for 0 <= a
Slice(s, a, b) == SubSeq(s, a + 1, Min(b, Len(s)))

(***************************************************************************)
(* Durations: timedelta                                                    *)
(***************************************************************************)
\* Fault: the fraction dropped instead of rounded.
round_down(p, q) == p \div q

\* p/q (q > 0) rounded to the nearest integer, a half to the even one.
round_half_even(p, q) ==
  LET f == p \div q
      r == p - f * q
  IN IF 2 * r < q THEN f
     ELSE IF 2 * r > q THEN f + 1
     ELSE IF f % 2 = 0 THEN f ELSE f + 1

\* timedelta(minutes = p/q) in units of the clock: timedelta keeps a whole
\* number of units of its resolution and rounds a fraction half to even.
\* The source's resolution is the microsecond; the model's clock counts
\* minutes, so its resolution is the minute.
timedelta_minutes(p, q) == round_half_even(p, q)

(***************************************************************************)
(* Destinations: load_channels, add_channel, remove_channel                *)
(***************************************************************************)
ChannelRow(c) == [channel_id |-> c, active |-> 1]

HasRow(tbl, c) == \E k \in DOMAIN tbl : tbl[k].channel_id = c

\* The ids with active = 1 in the store.
ActiveSet(tbl) == { tbl[k].channel_id : k \in { j \in DOMAIN tbl : tbl[j].active = 1 } }

\* SELECT channel_id FROM channels WHERE active = 1 (rows in rowid order)
RECURSIVE load_channels(_)
load_channels(tbl) ==
  IF tbl = << >> THEN << >>
  ELSE IF Head(tbl).active = 1
       THEN << Head(tbl).channel_id >> \o load_channels(Tail(tbl))
       ELSE load_channels(Tail(tbl))

\* UPDATE channels SET active = a WHERE channel_id = c
SetActive(tbl, c, a) ==
  [ k \in DOMAIN tbl |->
      IF tbl[k].channel_id = c THEN [tbl[k] EXCEPT !.active = a] ELSE tbl[k] ]

\* The channels table after add_channel(c): INSERT, or on the UNIQUE
\* constraint's IntegrityError the UPDATE ... SET active = 1.
add_channel_rows(tbl, c) ==
  IF HasRow(tbl, c) THEN SetActive(tbl, c, 1) ELSE Append(tbl, ChannelRow(c))

\* Fault: remove_channel deleting the row.
remove_channel_deletes(tbl, c) ==
  SelectSeq(tbl, LAMBDA row : row.channel_id # c)

\* The channels table after remove_channel(c).
remove_channel_rows(tbl, c) == SetActive(tbl, c, 0)

(***************************************************************************)
(* Posts: schedule_post, the due query, the delivered update, the deletes  *)
(***************************************************************************)
NewPost(t, n) ==
  [scheduled_time |-> t, posted |-> 0, total_channels |-> n,
   successful_posts |-> 0, posted_at |-> NULL]

\* INSERT INTO posts (...): the row gets the next AUTOINCREMENT id.
schedule_post_rows(tbl, id, t, n) ==
  [ p \in DOMAIN tbl \cup {id} |-> IF p = id THEN NewPost(t, n) ELSE tbl[p] ]

\* Fault: the due query without its `AND posted = 0`.
IsDue_ignoring_posted(row, t) == row.scheduled_time <= t

\* Fault: the due query without its `scheduled_time <= ?`.
IsDue_any_time(row, t) == row.posted = 0

\* WHERE scheduled_time <= ? AND posted = 0
IsDue(row, t) == row.scheduled_time <= t /\ row.posted = 0

\* Fault: the due query with ORDER BY id.
RECURSIVE OrderById(_, _)
OrderById(tbl, S) ==
  IF S = {} THEN << >>
  ELSE LET m == CHOOSE p \in S : \A q \in S : p <= q
       IN << [id |-> m, scheduled_time |-> tbl[m].scheduled_time] >>
            \o OrderById(tbl, S \ {m})

\* ORDER BY scheduled_time (rows of one scheduled_time in id order)
RECURSIVE OrderByTime(_, _)
OrderByTime(tbl, S) ==
  IF S = {} THEN << >>
  ELSE LET m == CHOOSE p \in S : \A q \in S :
                  \/ tbl[p].scheduled_time < tbl[q].scheduled_time
                  \/ tbl[p].scheduled_time = tbl[q].scheduled_time /\ p <= q
       IN << [id |-> m, scheduled_time |-> tbl[m].scheduled_time] >>
            \o OrderByTime(tbl, S \ {m})

\* Fault: the due query without its LIMIT.
due_query_unlimited(tbl, t) ==
  OrderByTime(tbl, { p \in DOMAIN tbl : IsDue(tbl[p], t) })

\* SELECT * FROM posts WHERE scheduled_time <= ? AND posted = 0
\*   ORDER BY scheduled_time LIMIT 200
due_query(tbl, t) ==
  Slice(OrderByTime(tbl, { p \in DOMAIN tbl : IsDue(tbl[p], t) }), 0, due_limit)

\* Fault: the delivered update without its `posted_at = ?`.
mark_delivered_no_timestamp(tbl, id, t, s) ==
  [ p \in DOMAIN tbl |->
      IF p = id
      THEN [tbl[p] EXCEPT !.posted = 1, !.successful_posts = s]
      ELSE tbl[p] ]

\* Fault: the delivered update skipped when no send succeeded
\* (if successful > 0: UPDATE ...).
mark_delivered_only_on_success(tbl, id, t, s) ==
  [ p \in DOMAIN tbl |->
      IF p = id /\ s > 0
      THEN [tbl[p] EXCEPT !.posted = 1, !.posted_at = {t}, !.successful_posts = s]
      ELSE tbl[p] ]

\* UPDATE posts SET posted = 1, posted_at = ?, successful_posts = ? WHERE id = ?
mark_delivered(tbl, id, t, s) ==
  [ p \in DOMAIN tbl |->
      IF p = id
      THEN [tbl[p] EXCEPT !.posted = 1, !.posted_at = {t}, !.successful_posts = s]
      ELSE tbl[p] ]

\* DELETE FROM posts WHERE id = ?
delete_post_rows(tbl, id) == [ p \in DOMAIN tbl \ {id} |-> tbl[p] ]

\* Fault: a reset that requeues every post (UPDATE posts SET posted = 0)
\* instead of deleting the pending ones.
reset_rows_requeue(tbl) == [ p \in DOMAIN tbl |-> [tbl[p] EXCEPT !.posted = 0] ]

\* DELETE FROM posts WHERE posted = 0   (reset_command with "confirm")
reset_rows(tbl) == [ p \in { q \in DOMAIN tbl : tbl[q].posted # 0 } |-> tbl[p] ]

\* Fault: posted_at <= cutoff.
Purgeable_inclusive(row, cutoff) ==
  row.posted = 1 /\ \E t \in row.posted_at : t <= cutoff

\* cleanup_posted_content: DELETE FROM posts WHERE posted = 1 AND posted_at < cutoff
Purgeable(row, cutoff) ==
  row.posted = 1 /\ \E t \in row.posted_at : t < cutoff

\* cleanup_posted_content's return value: count_to_delete, the result of
\* SELECT COUNT(*) FROM posts WHERE posted = 1 AND posted_at < cutoff
count_to_delete(tbl, t) ==
  Cardinality({ q \in DOMAIN tbl : Purgeable(tbl[q], t - auto_cleanup_minutes) })

cleanup_posted_content(tbl, t) ==
  LET cutoff == t - auto_cleanup_minutes
  IN [ p \in { q \in DOMAIN tbl : ~Purgeable(tbl[q], cutoff) } |-> tbl[p] ]

(***************************************************************************)
(* send_to_channel: one destination's send with retry                      *)
(***************************************************************************)
\* A send_to_channel coroutine: `attempt` is the for loop's variable, `st`
\* where the coroutine is (awaiting the bot's send, in the backoff sleep, or
\* returned True / False), `err` the kind of the last exception the bot's
\* send raised in it and `waits` the asyncio.sleep durations it has asked
\* for so far.
NewTask(c) ==
  [ch |-> c, attempt |-> 0, st |-> "sending", err |-> "none", waits |-> << >>]

Finished(t) == t.st \in {"ok", "failed"}

\* Fault: the backoff computed from the 0-based attempt (attempt * 3).
wait_time_zero_based(attempt) == attempt * backoff_unit

\* wait_time = (attempt + 1) * 3
wait_time(attempt) == (attempt + 1) * backoff_unit

\* Fault: the send's success without `return True`: the for loop goes on.
on_success_no_return(t) ==
  IF t.attempt < max_retries - 1
  THEN [t EXCEPT !.attempt = @ + 1]
  ELSE [t EXCEPT !.st = "failed"]

\* return True
on_success(t) == [t EXCEPT !.st = "ok"]

\* except (TimedOut, NetworkError)
on_retryable(t) ==
  IF t.attempt < max_retries - 1
  THEN [t EXCEPT !.st = "backoff", !.waits = Append(@, wait_time(t.attempt))]
  ELSE [t EXCEPT !.st = "failed"]

\* Fault: every TelegramError handled by the retrying handler.
on_terminal_retry(t) == on_retryable(t)

\* Fault: the handler re-raises (logger.error(...); raise), so the send
\* ends with an exception in gather instead of returning False.
on_terminal_raise(t) == [t EXCEPT !.st = "raised"]

\* except TelegramError
on_terminal(t) == [t EXCEPT !.st = "failed"]

\* The bot's send raised an exception of kind e in coroutine t.
Raised(t, e) == [t EXCEPT !.err = e]

\* asyncio.sleep(wait_time) is over: the for loop's next attempt
next_attempt(t) == [t EXCEPT !.st = "sending", !.attempt = @ + 1]

(***************************************************************************)
(* send_to_all_channels: the batch loop                                    *)
(***************************************************************************)
\* batch = self.channel_ids[j:j + batch_size]
Batch(ids, j) == Slice(ids, j, j + batch_size)

\* The loop `for i in range(0, n, batch_size)` from offset j on: the offset
\* of the first iteration that has a send to await, or n or more when the
\* loop runs out.  An iteration with an empty batch gathers nothing, adds 0
\* and, as i + batch_size < len(self.channel_ids) is false for it, does not
\* sleep.
RECURSIVE NextBatch(_, _, _)
NextBatch(ids, j, n) ==
  IF j >= n THEN j
  ELSE IF Batch(ids, j) # << >> THEN j
  ELSE NextBatch(ids, j + batch_size, n)

\* Fault: successful += len(results).
sum_results_all(ts) == Len(ts)

\* Fault: successful += batch_size.
sum_results_batch(ts) == batch_size

\* successful += sum(results)
sum_results(ts) == Cardinality({ k \in DOMAIN ts : ts[k].st = "ok" })

\* if i + batch_size < len(self.channel_ids): await asyncio.sleep(2.0)
sleeps_after_batch(j, ids) == j + batch_size < Len(ids)

CurPost == cycle_posts[idx]

TotalDispatched(d) == SumSeq([ c \in Channels |-> d[c] ])

\* The batch loop from offset j with `succ` successes so far, for the post
\* `id`, until the next suspension: either the next non-empty batch is
\* handed to gather, or the loop is over, the post's row is updated, the
\* outcome logged and process_due_posts sleeps 1 s.
FanoutFrom(id, j, succ, n, disp) ==
  LET k == NextBatch(channel_ids, j, n)
      b == Batch(channel_ids, k)
  IN IF k < n
     THEN /\ pc' = "gather"
          /\ i' = k
          /\ tasks' = [ x \in DOMAIN b |-> NewTask(b[x]) ]
          /\ successful' = succ
          /\ dispatched' = [ c \in Channels |->
                               disp[c] + Cardinality({ x \in DOMAIN b : b[x] = c }) ]
          /\ updates' = updates
          /\ posts' = posts
     ELSE /\ pc' = "sleep1"
          /\ i' = k
          /\ tasks' = << >>
          /\ successful' = succ
          /\ dispatched' = disp
          /\ updates' = [updates EXCEPT ![id] = @ + 1]
          /\ posts' = mark_delivered(posts, id, now, succ)

\* send_to_all_channels(bot, post) from its first line.
StartFanout(id) ==
  /\ range_len' = Len(channel_ids)
  /\ at_start' = ActiveSet(channels)
  /\ stable' = ActiveSet(channels)
  /\ ok_returns' = 0
  /\ FanoutFrom(id, 0, 0, Len(channel_ids), [ c \in Channels |-> 0 ])

\* Fault: the lock taken with acquire() and never released.
EndCycle_keeps_lock ==
  /\ posting_lock' = posting_lock
  /\ pc' = "idle"
  /\ idx' = 0
  /\ cycle_posts' = << >>
  /\ IF cleanup_counter + 1 >= cleanup_every
     THEN /\ posts' = cleanup_posted_content(posts, now)
          /\ cleanup_counter' = 0
     ELSE /\ posts' = posts
          /\ cleanup_counter' = cleanup_counter + 1
  /\ range_len' = 0
  /\ i' = 0
  /\ tasks' = << >>
  /\ successful' = 0
  /\ dispatched' = [ c \in Channels |-> 0 ]
  /\ at_start' = {}
  /\ stable' = {}
  /\ ok_returns' = 0
  /\ updates' = updates
  /\ logged_error' = "none"

\* process_due_posts returns to background_poster: the lock is released,
\* cleanup_counter += 1, every 2nd time cleanup_posted_content() runs, and
\* the poster sleeps 15 s.
EndCycle ==
  /\ posting_lock' = FALSE
  /\ pc' = "idle"
  /\ idx' = 0
  /\ cycle_posts' = << >>
  /\ IF cleanup_counter + 1 >= cleanup_every
     THEN /\ posts' = cleanup_posted_content(posts, now)
          /\ cleanup_counter' = 0
     ELSE /\ posts' = posts
          /\ cleanup_counter' = cleanup_counter + 1
  /\ range_len' = 0
  /\ i' = 0
  /\ tasks' = << >>
  /\ successful' = 0
  /\ dispatched' = [ c \in Channels |-> 0 ]
  /\ at_start' = {}
  /\ stable' = {}
  /\ ok_returns' = 0
  /\ updates' = updates
  /\ logged_error' = "none"

(***************************************************************************)
(* The poster's steps                                                      *)
(***************************************************************************)
\* Fault: process_due_posts without `async with self.posting_lock`.
PollStart_without_lock ==
  /\ pc = "idle"
  /\ LET rows == due_query(posts, now)
     IN IF rows = << >>
        THEN EndCycle
        ELSE /\ posting_lock' = posting_lock
             /\ cycle_posts' = rows
             /\ idx' = 1
             /\ cleanup_counter' = cleanup_counter
             /\ logged_error' = "none"
             /\ StartFanout(rows[1].id)
  /\ UNCHANGED << channels, seq, channel_ids, now, session_vars >>

\* The 15 s sleep is over: process_due_posts takes the lock, runs the due
\* query and starts on the first row.
PollStart ==
  /\ pc = "idle"
  /\ ~posting_lock
  /\ LET rows == due_query(posts, now)
     IN IF rows = << >>
        THEN EndCycle
        ELSE /\ posting_lock' = TRUE
             /\ cycle_posts' = rows
             /\ idx' = 1
             /\ cleanup_counter' = cleanup_counter
             /\ logged_error' = "none"
             /\ StartFanout(rows[1].id)
  /\ UNCHANGED << channels, seq, channel_ids, now, session_vars >>

\* The bot's send returns.
SendOk(k) ==
  /\ pc = "gather"
  /\ k \in DOMAIN tasks
  /\ tasks[k].st = "sending"
  /\ tasks' = [tasks EXCEPT ![k] = on_success(@)]
  /\ ok_returns' = ok_returns + 1
  /\ UNCHANGED << store_vars, now, session_vars, posting_lock, pc, cleanup_counter,
                  cycle_posts, idx, range_len, i, successful,
                  dispatched, at_start, stable, updates, logged_error >>

\* The bot's send raises TimedOut or NetworkError.
SendRetryable(k) ==
  /\ pc = "gather"
  /\ k \in DOMAIN tasks
  /\ tasks[k].st = "sending"
  /\ tasks' = [tasks EXCEPT ![k] = on_retryable(Raised(@, "retryable"))]
  /\ UNCHANGED << store_vars, now, session_vars, posting_lock, pc, cleanup_counter,
                  cycle_posts, idx, range_len, i, successful, obs_vars >>

\* The bot's send raises another TelegramError.
SendTerminal(k) ==
  /\ pc = "gather"
  /\ k \in DOMAIN tasks
  /\ tasks[k].st = "sending"
  /\ tasks' = [tasks EXCEPT ![k] = on_terminal(Raised(@, "terminal"))]
  /\ UNCHANGED << store_vars, now, session_vars, posting_lock, pc, cleanup_counter,
                  cycle_posts, idx, range_len, i, successful, obs_vars >>

\* The backoff sleep of a send_to_channel is over.
BackoffDone(k) ==
  /\ pc = "gather"
  /\ k \in DOMAIN tasks
  /\ tasks[k].st = "backoff"
  /\ tasks' = [tasks EXCEPT ![k] = next_attempt(@)]
  /\ UNCHANGED << store_vars, now, session_vars, posting_lock, pc, cleanup_counter,
                  cycle_posts, idx, range_len, i, successful, obs_vars >>

\* gather returns: every send_to_channel of the batch has returned.
BatchDone ==
  /\ pc = "gather"
  /\ \A k \in DOMAIN tasks : Finished(tasks[k])
  /\ LET succ == successful + sum_results(tasks)
     IN IF sleeps_after_batch(i, channel_ids)
        THEN /\ pc' = "sleep2"
             /\ successful' = succ
             /\ tasks' = << >>
             /\ UNCHANGED << posts, i, dispatched, updates >>
        ELSE FanoutFrom(CurPost.id, i + batch_size, succ, range_len, dispatched)
  /\ UNCHANGED << channels, seq, channel_ids, now, session_vars, posting_lock,
                  cleanup_counter, cycle_posts, idx, range_len,
                  at_start, stable, ok_returns, logged_error >>

\* The 2 s sleep between two batches is over.
Sleep2Done ==
  /\ pc = "sleep2"
  /\ FanoutFrom(CurPost.id, i + batch_size, successful, range_len, dispatched)
  /\ UNCHANGED << channels, seq, channel_ids, now, session_vars, posting_lock,
                  cleanup_counter, cycle_posts, idx, range_len,
                  at_start, stable, ok_returns, logged_error >>

\* The 1 s sleep after a post is over: the next fetched row, or the end of
\* the cycle.
Sleep1Done ==
  /\ pc = "sleep1"
  /\ IF idx < Len(cycle_posts)
     THEN /\ idx' = idx + 1
          /\ StartFanout(cycle_posts[idx + 1].id)
          /\ UNCHANGED << posting_lock, cleanup_counter, cycle_posts,
                          logged_error >>
     ELSE EndCycle
  /\ UNCHANGED << channels, seq, channel_ids, now, session_vars >>

(***************************************************************************)
(* Errors of the store in the poster                                       *)
(*                                                                         *)
(* The bot's sends raise TelegramError or one of its subclasses, which     *)
(* send_to_channel handles; the statements of the poster that can raise    *)
(* anything else are those on posts.db (sqlite3.Error).  The exception     *)
(* leaves process_due_posts through `async with`, which releases the lock, *)
(* and is caught and logged by background_poster's `except Exception`.     *)
(***************************************************************************)
\* Fault: the lock taken with acquire() and not released on an exception.
AbortCycle_keeps_lock(e) ==
  /\ posting_lock' = TRUE
  /\ pc' = "idle"
  /\ idx' = 0
  /\ cycle_posts' = << >>
  /\ cleanup_counter' = cleanup_counter
  /\ range_len' = 0
  /\ i' = 0
  /\ tasks' = << >>
  /\ successful' = 0
  /\ dispatched' = [ c \in Channels |-> 0 ]
  /\ at_start' = {}
  /\ stable' = {}
  /\ ok_returns' = 0
  /\ updates' = updates
  /\ logged_error' = e

\* Fault: cleanup_counter += 1 in a finally block.
AbortCycle_counts(e) ==
  /\ posting_lock' = FALSE
  /\ pc' = "idle"
  /\ idx' = 0
  /\ cycle_posts' = << >>
  /\ cleanup_counter' = cleanup_counter + 1
  /\ range_len' = 0
  /\ i' = 0
  /\ tasks' = << >>
  /\ successful' = 0
  /\ dispatched' = [ c \in Channels |-> 0 ]
  /\ at_start' = {}
  /\ stable' = {}
  /\ ok_returns' = 0
  /\ updates' = updates
  /\ logged_error' = e

\* An exception leaves process_due_posts: the lock is released, the try
\* block's remaining statements (the counter, the cleanup) are skipped, e
\* is logged and the poster sleeps 15 s.
AbortCycle(e) ==
  /\ posting_lock' = FALSE
  /\ pc' = "idle"
  /\ idx' = 0
  /\ cycle_posts' = << >>
  /\ cleanup_counter' = cleanup_counter
  /\ range_len' = 0
  /\ i' = 0
  /\ tasks' = << >>
  /\ successful' = 0
  /\ dispatched' = [ c \in Channels |-> 0 ]
  /\ at_start' = {}
  /\ stable' = {}
  /\ ok_returns' = 0
  /\ updates' = updates
  /\ logged_error' = e

\* The batch loop from offset j runs out without another send to await.
FanoutEnds(j, n) == NextBatch(channel_ids, j, n) >= n

\* The next statement on posts.db the poster reaches without suspending is
\* the UPDATE of send_to_all_channels.
AtUpdate ==
  \/ /\ pc = "idle"
     /\ due_query(posts, now) # << >>
     /\ FanoutEnds(0, Len(channel_ids))
  \/ /\ pc = "gather"
     /\ \A k \in DOMAIN tasks : Finished(tasks[k])
     /\ ~sleeps_after_batch(i, channel_ids)
     /\ FanoutEnds(i + batch_size, range_len)
  \/ /\ pc = "sleep2"
     /\ FanoutEnds(i + batch_size, range_len)
  \/ /\ pc = "sleep1"
     /\ idx < Len(cycle_posts)
     /\ FanoutEnds(0, Len(channel_ids))

\* process_due_posts returns and cleanup_posted_content is due.
AtCleanup ==
  /\ \/ pc = "idle" /\ due_query(posts, now) = << >>
     \/ pc = "sleep1" /\ idx >= Len(cycle_posts)
  /\ cleanup_counter + 1 >= cleanup_every

\* The 15 s sleep is over and the due query raises.
QueryFails ==
  /\ pc = "idle"
  /\ ~posting_lock
  /\ posts' = posts
  /\ AbortCycle("query")
  /\ UNCHANGED << channels, seq, channel_ids, now, session_vars >>

\* The post and the count of that UPDATE.
AtUpdateId ==
  IF pc = "idle" THEN due_query(posts, now)[1].id
  ELSE IF pc = "sleep1" THEN cycle_posts[idx + 1].id
  ELSE CurPost.id

AtUpdateCount ==
  IF pc = "gather" THEN successful + sum_results(tasks)
  ELSE IF pc = "sleep2" THEN successful
  ELSE 0

\* Fault: a connection in autocommit mode, whose statement is kept when
\* the commit raises.
rollback_keeps_write(tbl, written) == written

\* get_db closes the connection without conn.commit(): what the statement
\* wrote is rolled back.
rollback(tbl, written) == tbl

\* The UPDATE of send_to_all_channels, or its commit, raises.
UpdateFails ==
  /\ AtUpdate
  /\ posts' = rollback(posts, mark_delivered(posts, AtUpdateId, now, AtUpdateCount))
  /\ AbortCycle("update")
  /\ UNCHANGED << channels, seq, channel_ids, now, session_vars >>

\* cleanup_posted_content raises: `cleanup_counter = 0` is not reached.
CleanupFails ==
  /\ AtCleanup
  /\ cleanup_counter < MaxCounter
  /\ posting_lock' = FALSE
  /\ pc' = "idle"
  /\ idx' = 0
  /\ cycle_posts' = << >>
  /\ cleanup_counter' = cleanup_counter + 1
  /\ range_len' = 0
  /\ i' = 0
  /\ tasks' = << >>
  /\ successful' = 0
  /\ dispatched' = [ c \in Channels |-> 0 ]
  /\ at_start' = {}
  /\ stable' = {}
  /\ ok_returns' = 0
  /\ updates' = updates
  /\ logged_error' = "cleanup"
  /\ UNCHANGED << store_vars, now, session_vars >>

(***************************************************************************)
(* The operator's commands and the clock                                   *)
(***************************************************************************)
InFanout == pc \in {"gather", "sleep2"}

\* /addchannel c
AddChannel(c) ==
  /\ channels' = add_channel_rows(channels, c)
  /\ channel_ids' = load_channels(channels')
  /\ UNCHANGED << posts, seq, now, session_vars, poster_vars, obs_vars >>

\* /removechannel c
RemoveChannel(c) ==
  /\ channels' = remove_channel_rows(channels, c)
  /\ channel_ids' = IF HasRow(channels, c)
                    THEN load_channels(channels')
                    ELSE channel_ids
  /\ stable' = IF InFanout THEN stable \ {c} ELSE stable
  /\ UNCHANGED << posts, seq, now, session_vars, poster_vars,
                  dispatched, at_start, ok_returns, updates, logged_error >>

\* scheduler.schedule_post(t, ...), called when a compose flow is confirmed
SchedulePost(t) ==
  /\ seq < MaxPosts
  /\ seq' = seq + 1
  /\ posts' = schedule_post_rows(posts, seq + 1, t, Len(channel_ids))
  /\ UNCHANGED << channels, channel_ids, now, session_vars, poster_vars, obs_vars >>

\* /delete id
DeletePost(id) ==
  /\ id \in DOMAIN posts
  /\ posts' = delete_post_rows(posts, id)
  /\ UNCHANGED << channels, seq, channel_ids, now, session_vars, poster_vars, obs_vars >>

\* /reset confirm
ResetConfirm ==
  /\ \E p \in DOMAIN posts : posts[p].posted = 0
  /\ posts' = reset_rows(posts)
  /\ UNCHANGED << channels, seq, channel_ids, now, session_vars, poster_vars, obs_vars >>

(***************************************************************************)
(* Display times: instants are shown in the display timezone               *)
(* (Asia/Kolkata), a fixed offset ahead of UTC; clock value 0 is a UTC     *)
(* midnight.                                                               *)
(***************************************************************************)
minutes_per_hour == 60

minutes_per_day == 1440

\* Asia/Kolkata: UTC+05:30
ist_offset == 330

\* ist_to_utc(ist_dt)
ist_to_utc(ist_dt) == ist_dt - ist_offset

\* utc_to_ist(utc_dt)
utc_to_ist(utc_dt) == utc_dt + ist_offset

\* get_ist_now() at clock value t
get_ist_now(t) == utc_to_ist(t)

\* datetime.combine(dt.date(), datetime.min.time())
date_midnight(dt) == dt - (dt % minutes_per_day)

(***************************************************************************)
(* The compose session: handle_message, cancel, schedule_bulk_posts,       *)
(* schedule_batch_posts                                                    *)
(*                                                                         *)
(* The application handles one update at a time, so a handler is one step. *)
(* Its replies are sends of the bot and may raise TelegramError; that      *)
(* matters to the state only where the handler still has something to do   *)
(* after the reply, which is the case of the four commits (the session is  *)
(* reset after the reply).                                                 *)
(***************************************************************************)
\* {'mode': None, 'step': 'choose_mode'}
NewSession == [mode |-> "None", step |-> "choose_mode"]

\* session[k] = v
SetKey(s, k, v) == [ x \in DOMAIN s \cup {k} |-> IF x = k THEN v ELSE s[x] ]

TimeSteps == { "bulk_get_start_time", "batch_get_start_time",
               "exact_get_time", "duration_get_time" }

DurationSteps == { "bulk_get_duration", "batch_get_duration" }

CollectSteps == { "bulk_collect_posts", "batch_collect_posts" }

ContentSteps == { "exact_get_content", "duration_get_content" }

ConfirmSteps == { "bulk_confirm", "batch_confirm", "exact_confirm",
                  "duration_confirm" }

\* Message texts that are no time, duration or batch size and no cancel
\* signal: the empty text (message_text of a message without text, such as
\* a photo), a word and a zero.
BadTexts == { "", "soon", "0" }

\* What parse_user_time_input(text) raises for a text of BadTexts: text[-1]
\* of the empty text is an IndexError; the other texts fall through to the
\* final raise ValueError.
time_error(text) == IF text = "" THEN "IndexError" ELSE "ValueError"

\* What parse_duration_to_minutes(text) raises for a text of BadTexts.
duration_error(text) == IF text = "" THEN "IndexError" ELSE "ValueError"

\* What int(message_text.strip()) followed by `if batch_size < 1: raise
\* ValueError` raises for a text of BadTexts.
batch_size_error(text) == "ValueError"

\* Fault: interval = duration_minutes / (num_posts - 1), which puts the
\* last post at the end of the duration.
bulk_offset_inclusive(duration_minutes, num_posts, k) ==
  IF num_posts > 1
  THEN timedelta_minutes(duration_minutes * k, num_posts - 1)
  ELSE timedelta_minutes(0, 1)

\* interval * i of schedule_bulk_posts, as the fraction of minutes it
\* stands for: interval = duration_minutes / num_posts if num_posts > 1
\* else 0.
bulk_offset(duration_minutes, num_posts, k) ==
  IF num_posts > 1
  THEN timedelta_minutes(duration_minutes * k, num_posts)
  ELSE timedelta_minutes(0, 1)

\* The rows schedule_bulk_posts inserts: buffered item k (0-based) gets the
\* id first + k and scheduled_utc = start_utc + timedelta(minutes=interval * k).
RECURSIVE schedule_bulk_rows(_, _, _, _, _, _, _)
schedule_bulk_rows(tbl, first, start_utc, duration_minutes, num_posts, k, n) ==
  IF k >= num_posts THEN tbl
  ELSE schedule_bulk_rows(
         schedule_post_rows(tbl, first + k,
           start_utc + bulk_offset(duration_minutes, num_posts, k), n),
         first, start_utc, duration_minutes, num_posts, k + 1, n)

\* Fault: num_batches = num_posts // batch_size.
num_batches_floor(num_posts, size) == num_posts \div size

\* num_batches = (num_posts + batch_size - 1) // batch_size
num_batches(num_posts, size) == (num_posts + size - 1) \div size

\* batch_number = i // batch_size
batch_number(k, size) == k \div size

\* post_in_batch = i % batch_size
post_in_batch(k, size) == k % size

\* Fault: batch_interval = duration_minutes / (num_batches - 1).
batch_offset_inclusive(duration_minutes, nb, bn, pib) ==
  IF nb > 1
  THEN timedelta_minutes(duration_minutes * bn, nb - 1) + pib * two_seconds
  ELSE timedelta_minutes(0, 1) + pib * two_seconds

\* timedelta(minutes=batch_interval * batch_number, seconds=post_in_batch * 2)
\* with batch_interval = duration_minutes / num_batches if num_batches > 1
\* else 0: the seconds are a whole number of the resolution, so the
\* rounding is that of the minutes.
batch_offset(duration_minutes, nb, bn, pib) ==
  IF nb > 1
  THEN timedelta_minutes(duration_minutes * bn, nb) + pib * two_seconds
  ELSE timedelta_minutes(0, 1) + pib * two_seconds

\* The rows schedule_batch_posts inserts: buffered item k (0-based) gets the
\* id first + k.
RECURSIVE schedule_batch_rows(_, _, _, _, _, _, _, _)
schedule_batch_rows(tbl, first, start_utc, duration_minutes, size, num_posts, k, n) ==
  IF k >= num_posts THEN tbl
  ELSE schedule_batch_rows(
         schedule_post_rows(tbl, first + k,
           start_utc + batch_offset(duration_minutes,
                                    num_batches(num_posts, size),
                                    batch_number(k, size),
                                    post_in_batch(k, size)), n),
         first, start_utc, duration_minutes, size, num_posts, k + 1, n)

\* The preview on display once the session is s: the one shown while s
\* waits at the confirmation prompt that showed it, none otherwise.
shown_preview(s) ==
  IF s.step \in {"bulk_confirm", "batch_confirm"} THEN preview ELSE << >>

\* The handler changes the session only.
SessionStep(s, out) ==
  /\ user_sessions' = s
  /\ outcome' = out
  /\ preview' = shown_preview(s)
  /\ UNCHANGED << store_vars, now, poster_vars, obs_vars >>

\* The handler changes the session and replies with the preview pv.
PreviewStep(s, pv) ==
  /\ user_sessions' = s
  /\ outcome' = "prompt"
  /\ preview' = pv
  /\ UNCHANGED << store_vars, now, poster_vars, obs_vars >>

\* dt.strftime('%H:%M:%S'), dt.strftime('%H:%M'): the time of day, without
\* the date.
strftime_time(dt) == dt % minutes_per_day

\* Fault: the preview computed with interval = duration / (num_posts - 1).
bulk_preview_inclusive(start_utc, duration_minutes, num_posts) ==
  [ k \in 1..Min(preview_limit, num_posts) |->
      strftime_time(utc_to_ist(
        start_utc + bulk_offset_inclusive(duration_minutes, num_posts, k - 1))) ]

\* "First 5 posts": for i in range(min(5, num_posts)) the time of day of
\* utc_to_ist(start_utc + timedelta(minutes=interval * i)).
bulk_preview(start_utc, duration_minutes, num_posts) ==
  [ k \in 1..Min(preview_limit, num_posts) |->
      strftime_time(utc_to_ist(
        start_utc + bulk_offset(duration_minutes, num_posts, k - 1))) ]

\* "Schedule Preview": for i in range(min(5, num_batches)) the time of day
\* of utc_to_ist(start_utc + timedelta(minutes=batch_interval * i)) and the
\* posts #batch_start-batch_end, with batch_start = i * batch_size + 1 and
\* batch_end = min((i + 1) * batch_size, num_posts).
batch_preview(start_utc, duration_minutes, size, num_posts) ==
  [ b \in 1..Min(preview_limit, num_batches(num_posts, size)) |->
      [ time |-> strftime_time(utc_to_ist(
                   start_utc + batch_offset(duration_minutes,
                                            num_batches(num_posts, size), b - 1, 0))),
        batch_start |-> (b - 1) * size + 1,
        batch_end |-> Min(b * size, num_posts) ] ]

\* The commits reply and then reset the session: when the reply raises the
\* reset is not reached.
after_reply(s, replied) == IF replied THEN NewSession ELSE s

\* Fault: cancel replying before it resets the session.
cancel_after_reply(s, replied) == IF replied THEN NewSession ELSE s

\* cancel: the session is reset, then the reply is sent.
cancel(s, replied) == NewSession

\* What the handler's last reply leaves in outcome: the reply, or that it
\* raised.
ReplyOutcome(replied, out) == IF replied THEN out ELSE out \o ": TelegramError"

\* ---- SPACED mode ('bulk')

\* "📦 Bulk" at step choose_mode, with at least one channel configured
ChooseBulk ==
  /\ user_sessions.step = "choose_mode"
  /\ Len(channel_ids) # 0
  /\ SessionStep(SetKey(SetKey(SetKey(user_sessions, "mode", "bulk"),
                     "step", "bulk_get_start_time"), "posts", << >>), "prompt")

\* Fault: a start time at step bulk_get_start_time taken as the duration
\* too.
BulkStartTime_skips(start_utc) ==
  /\ user_sessions.mode = "bulk"
  /\ user_sessions.step = "bulk_get_start_time"
  /\ SessionStep(SetKey(SetKey(user_sessions, "bulk_start_time_utc", start_utc),
                        "step", "bulk_collect_posts"), "prompt")

\* A start time at step bulk_get_start_time
BulkStartTime(start_utc) ==
  /\ user_sessions.mode = "bulk"
  /\ user_sessions.step = "bulk_get_start_time"
  /\ SessionStep(SetKey(SetKey(user_sessions, "bulk_start_time_utc", start_utc),
                        "step", "bulk_get_duration"), "prompt")

\* A duration at step bulk_get_duration
BulkDuration(duration_minutes) ==
  /\ user_sessions.mode = "bulk"
  /\ user_sessions.step = "bulk_get_duration"
  /\ SessionStep(SetKey(SetKey(user_sessions, "duration_minutes", duration_minutes),
                        "step", "bulk_collect_posts"), "prompt")

\* A message with content at step bulk_collect_posts
BulkCollect ==
  /\ user_sessions.mode = "bulk"
  /\ user_sessions.step = "bulk_collect_posts"
  /\ seq + Len(user_sessions.posts) < MaxPosts
  /\ SessionStep(SetKey(user_sessions, "posts",
                        Append(user_sessions.posts, "content")), "prompt")

\* "✅ Done" at step bulk_collect_posts, with at least one buffered post
BulkDone ==
  /\ user_sessions.mode = "bulk"
  /\ user_sessions.step = "bulk_collect_posts"
  /\ user_sessions.posts # << >>
  /\ PreviewStep(SetKey(user_sessions, "step", "bulk_confirm"),
                 bulk_preview(user_sessions.bulk_start_time_utc,
                              user_sessions.duration_minutes,
                              Len(user_sessions.posts)))

\* "✅ Confirm" at step bulk_confirm: schedule_bulk_posts
BulkConfirm ==
  /\ user_sessions.mode = "bulk"
  /\ user_sessions.step = "bulk_confirm"
  /\ LET num_posts == Len(user_sessions.posts)
     IN /\ seq + num_posts <= MaxPosts
        /\ posts' = schedule_bulk_rows(posts, seq + 1,
                      user_sessions.bulk_start_time_utc,
                      user_sessions.duration_minutes, num_posts, 0,
                      Len(channel_ids))
        /\ seq' = seq + num_posts
  /\ \E replied \in BOOLEAN :
       /\ user_sessions' = after_reply(user_sessions, replied)
       /\ outcome' = ReplyOutcome(replied, "scheduled")
       /\ preview' = shown_preview(after_reply(user_sessions, replied))
  /\ UNCHANGED << channels, channel_ids, now, poster_vars, obs_vars >>

\* ---- GROUPED mode ('batch')

\* "🎯 Bulk ... Batches" at step choose_mode
ChooseBatch ==
  /\ user_sessions.step = "choose_mode"
  /\ Len(channel_ids) # 0
  /\ SessionStep(SetKey(SetKey(SetKey(user_sessions, "mode", "batch"),
                     "step", "batch_get_start_time"), "posts", << >>), "prompt")

\* A start time at step batch_get_start_time
BatchStartTime(start_utc) ==
  /\ user_sessions.mode = "batch"
  /\ user_sessions.step = "batch_get_start_time"
  /\ SessionStep(SetKey(SetKey(user_sessions, "batch_start_time_utc", start_utc),
                        "step", "batch_get_duration"), "prompt")

\* A duration at step batch_get_duration
BatchDuration(duration_minutes) ==
  /\ user_sessions.mode = "batch"
  /\ user_sessions.step = "batch_get_duration"
  /\ SessionStep(SetKey(SetKey(user_sessions, "duration_minutes", duration_minutes),
                        "step", "batch_get_batch_size"), "prompt")

\* A number at step batch_get_batch_size
BatchSize(size) ==
  /\ user_sessions.mode = "batch"
  /\ user_sessions.step = "batch_get_batch_size"
  /\ size >= 1
  /\ SessionStep(SetKey(SetKey(user_sessions, "batch_size", size),
                        "step", "batch_collect_posts"), "prompt")

\* A message with content at step batch_collect_posts; the operator sends
\* at most cap posts.
BatchCollect(cap) ==
  /\ user_sessions.mode = "batch"
  /\ user_sessions.step = "batch_collect_posts"
  /\ seq + Len(user_sessions.posts) < cap
  /\ SessionStep(SetKey(user_sessions, "posts",
                        Append(user_sessions.posts, "content")), "prompt")

\* "✅ Done" at step batch_collect_posts, with at least one buffered post
BatchPostsDone ==
  /\ user_sessions.mode = "batch"
  /\ user_sessions.step = "batch_collect_posts"
  /\ user_sessions.posts # << >>
  /\ PreviewStep(SetKey(user_sessions, "step", "batch_confirm"),
                 batch_preview(user_sessions.batch_start_time_utc,
                               user_sessions.duration_minutes,
                               user_sessions.batch_size,
                               Len(user_sessions.posts)))

\* "✅ Confirm" at step batch_confirm: schedule_batch_posts
BatchConfirm(cap) ==
  /\ user_sessions.mode = "batch"
  /\ user_sessions.step = "batch_confirm"
  /\ LET num_posts == Len(user_sessions.posts)
     IN /\ seq + num_posts <= cap
        /\ posts' = schedule_batch_rows(posts, seq + 1,
                      user_sessions.batch_start_time_utc,
                      user_sessions.duration_minutes,
                      user_sessions.batch_size, num_posts, 0,
                      Len(channel_ids))
        /\ seq' = seq + num_posts
  /\ \E replied \in BOOLEAN :
       /\ user_sessions' = after_reply(user_sessions, replied)
       /\ outcome' = ReplyOutcome(replied, "scheduled")
       /\ preview' = shown_preview(after_reply(user_sessions, replied))
  /\ UNCHANGED << channels, channel_ids, now, poster_vars, obs_vars >>

\* ---- EXACT mode ('exact')

\* "📅 Exact" at step choose_mode
ChooseExact ==
  /\ user_sessions.step = "choose_mode"
  /\ Len(channel_ids) # 0
  /\ SessionStep(SetKey(SetKey(user_sessions, "mode", "exact"),
                        "step", "exact_get_time"), "prompt")

\* A time at step exact_get_time
ExactTime(utc_time) ==
  /\ user_sessions.mode = "exact"
  /\ user_sessions.step = "exact_get_time"
  /\ SessionStep(SetKey(SetKey(user_sessions, "scheduled_time_utc", utc_time),
                        "step", "exact_get_content"), "prompt")

\* A message with content at step exact_get_content
ExactContent ==
  /\ user_sessions.mode = "exact"
  /\ user_sessions.step = "exact_get_content"
  /\ SessionStep(SetKey(SetKey(user_sessions, "content", "content"),
                        "step", "exact_confirm"), "prompt")

\* "✅ Confirm" at step exact_confirm
ExactConfirm ==
  /\ user_sessions.mode = "exact"
  /\ user_sessions.step = "exact_confirm"
  /\ seq < MaxPosts
  /\ posts' = schedule_post_rows(posts, seq + 1,
                user_sessions.scheduled_time_utc, Len(channel_ids))
  /\ seq' = seq + 1
  /\ \E replied \in BOOLEAN :
       /\ user_sessions' = after_reply(user_sessions, replied)
       /\ outcome' = ReplyOutcome(replied, "scheduled")
       /\ preview' = shown_preview(after_reply(user_sessions, replied))
  /\ UNCHANGED << channels, channel_ids, now, poster_vars, obs_vars >>

\* ---- RELATIVE mode ('duration')

\* "⏱️ Duration" at step choose_mode
ChooseDuration ==
  /\ user_sessions.step = "choose_mode"
  /\ Len(channel_ids) # 0
  /\ SessionStep(SetKey(SetKey(user_sessions, "mode", "duration"),
                        "step", "duration_get_time"), "prompt")

\* A time at step duration_get_time
DurationTime(utc_time) ==
  /\ user_sessions.mode = "duration"
  /\ user_sessions.step = "duration_get_time"
  /\ SessionStep(SetKey(SetKey(user_sessions, "scheduled_time_utc", utc_time),
                        "step", "duration_get_content"), "prompt")

\* A message with content at step duration_get_content
DurationContent ==
  /\ user_sessions.mode = "duration"
  /\ user_sessions.step = "duration_get_content"
  /\ SessionStep(SetKey(SetKey(user_sessions, "content", "content"),
                        "step", "duration_confirm"), "prompt")

\* "✅ Confirm" at step duration_confirm
DurationConfirm ==
  /\ user_sessions.mode = "duration"
  /\ user_sessions.step = "duration_confirm"
  /\ seq < MaxPosts
  /\ posts' = schedule_post_rows(posts, seq + 1,
                user_sessions.scheduled_time_utc, Len(channel_ids))
  /\ seq' = seq + 1
  /\ \E replied \in BOOLEAN :
       /\ user_sessions' = after_reply(user_sessions, replied)
       /\ outcome' = ReplyOutcome(replied, "scheduled")
       /\ preview' = shown_preview(after_reply(user_sessions, replied))
  /\ UNCHANGED << channels, channel_ids, now, poster_vars, obs_vars >>

\* ---- inputs that do not advance the session

\* Fault: a mode entered without a channel.
ChooseNoChannels_enters ==
  /\ user_sessions.step = "choose_mode"
  /\ Len(channel_ids) = 0
  /\ SessionStep(SetKey(SetKey(user_sessions, "mode", "exact"),
                        "step", "exact_get_time"), "prompt")

\* "📦 Bulk", "🎯 Batch", "📅 Exact" or "⏱️ Duration" at step choose_mode
\* while len(scheduler.channel_ids) == 0: "No channels configured!"
ChooseNoChannels ==
  /\ user_sessions.step = "choose_mode"
  /\ Len(channel_ids) = 0
  /\ SessionStep(user_sessions, "no_channels")


\* A text of BadTexts at a time, duration or batch-size step: a ValueError
\* is caught and answered with the prompt again; anything else leaves the
\* handler.  The parse comes before every assignment to the session.
BadInput(text) ==
  /\ user_sessions.step \in TimeSteps \cup DurationSteps \cup {"batch_get_batch_size"}
  /\ LET e == IF user_sessions.step \in TimeSteps THEN time_error(text)
              ELSE IF user_sessions.step \in DurationSteps THEN duration_error(text)
              ELSE batch_size_error(text)
     IN SessionStep(user_sessions, IF e = "ValueError" THEN "reprompt" ELSE e)

\* Fault: "✅ Done" taken with an empty buffer.
DoneEmpty_accepts ==
  /\ user_sessions.step \in CollectSteps
  /\ user_sessions.posts = << >>
  /\ SessionStep(SetKey(user_sessions, "step",
                   IF user_sessions.mode = "bulk" THEN "bulk_confirm"
                   ELSE "batch_confirm"), "prompt")

\* "✅ Done" at a collection step with an empty buffer
DoneEmpty ==
  /\ user_sessions.step \in CollectSteps
  /\ user_sessions.posts = << >>
  /\ SessionStep(user_sessions, "reprompt")

\* A message without content at a content step, or a text other than
\* "✅ Confirm" and "❌" at a confirm step: the prompt again.  (At a
\* collection step such a message is ignored without a reply.)
Unrecognized ==
  /\ user_sessions.step \in ContentSteps \cup ConfirmSteps
  /\ SessionStep(user_sessions, "reprompt")

\* /cancel, or "❌" in a compose mode
Cancel ==
  /\ \E replied \in BOOLEAN :
       SessionStep(cancel(user_sessions, replied), ReplyOutcome(replied, "cancelled"))

\* Time passes.
Tick ==
  /\ now < MaxTime
  /\ now' = now + 1
  /\ UNCHANGED << store_vars, poster_vars, obs_vars, session_vars >>

(***************************************************************************)
(* The specification                                                       *)
(***************************************************************************)
\* The scheduler constructed over a posts.db whose channels table is tbl
\* and whose posts table is empty; the poster has not run yet.
InitWith(tbl) ==
  /\ channels = tbl
  /\ posts = << >>
  /\ seq = 0
  /\ channel_ids = load_channels(tbl)
  /\ posting_lock = FALSE
  /\ user_sessions = NewSession
  /\ outcome = "none"
  /\ preview = << >>
  /\ now = 0
  /\ pc = "idle"
  /\ cleanup_counter = 0
  /\ cycle_posts = << >>
  /\ idx = 0
  /\ range_len = 0
  /\ i = 0
  /\ tasks = << >>
  /\ successful = 0
  /\ dispatched = [ c \in Channels |-> 0 ]
  /\ at_start = {}
  /\ stable = {}
  /\ ok_returns = 0
  /\ updates = [ p \in PostIds |-> 0 ]
  /\ logged_error = "none"

\* A fresh posts.db.
Init == InitWith(<< >>)

Sender ==
  \E k \in 1..batch_size :
    \/ SendOk(k)
    \/ SendRetryable(k)
    \/ SendTerminal(k)
    \/ BackoffDone(k)

Poster ==
  \/ PollStart
  \/ BatchDone
  \/ Sleep2Done
  \/ Sleep1Done

PosterFails ==
  \/ QueryFails
  \/ UpdateFails
  \/ CleanupFails

ComposeBulk ==
  \/ ChooseBulk
  \/ \E t \in Times : BulkStartTime(t)
  \/ \E d \in Durations : BulkDuration(d)
  \/ BulkCollect
  \/ BulkDone
  \/ BulkConfirm

ComposeBatch ==
  \/ ChooseBatch
  \/ \E t \in Times : BatchStartTime(t)
  \/ \E d \in Durations : BatchDuration(d)
  \/ \E b \in BatchSizes : BatchSize(b)
  \/ BatchCollect(MaxPosts)
  \/ BatchPostsDone
  \/ BatchConfirm(MaxPosts)

ComposeSingle ==
  \/ ChooseExact
  \/ \E t \in Times : ExactTime(t)
  \/ ExactContent
  \/ ExactConfirm
  \/ ChooseDuration
  \/ \E t \in Times : DurationTime(t)
  \/ DurationContent
  \/ DurationConfirm

ComposeRejects ==
  \/ \E text \in BadTexts : BadInput(text)
  \/ DoneEmpty
  \/ Unrecognized

Compose ==
  \/ ComposeBulk
  \/ ComposeBatch
  \/ ComposeSingle
  \/ ComposeRejects
  \/ Cancel

Operator ==
  \/ \E c \in Channels : AddChannel(c)
  \/ \E c \in Channels : RemoveChannel(c)
  \/ \E t \in Times : SchedulePost(t)
  \/ \E id \in PostIds : DeletePost(id)
  \/ ResetConfirm

Next ==
  \/ Poster
  \/ PosterFails
  \/ Sender
  \/ Operator
  \/ Compose
  \/ Tick

Spec == Init /\ [][Next]_vars

(***************************************************************************)
(* Scenarios.  Spec's state space is far beyond exhaustive search at the   *)
(* bounds above, so the properties are checked under specifications that   *)
(* leave part of the environment still.  Each takes its steps from Next    *)
(* and starts from a store Spec can produce, so each of its behaviours is  *)
(* (a suffix of) a behaviour of Spec.                                      *)
(***************************************************************************)
\* A channels table with the rows 1..n, all active, as main() leaves it
\* after add_channel for each id of CHANNEL_IDS.
AllActive(n) == [ c \in 1..n |-> ChannelRow(c) ]

\* Post life cycle: every post command, the clock, the poster and the
\* sender, over a fixed destination list of no channel or of one channel
\* (a fan-out of at most one batch, which never takes the 2 s sleep).
InitStore == \E n \in {0, 1} : InitWith(AllActive(n))

NextStore ==
  \/ PollStart
  \/ BatchDone
  \/ Sleep1Done
  \/ Sender
  \/ \E t \in Times : seq < MaxPosts - 1 /\ SchedulePost(t)
  \/ \E id \in PostIds : DeletePost(id)
  \/ ResetConfirm
  \/ Tick

SpecStore == InitStore /\ [][NextStore]_vars

\* Fan-out against destination changes: the channel commands, one post
\* scheduled for time 0, the poster, and a sender that succeeds or fails
\* terminally; the store starts with all ids but the last as active rows.
InitFanout == InitWith(AllActive(MaxChannels - 1))

NextFanout ==
  \/ Poster
  \/ \E k \in 1..batch_size : SendOk(k)
  \/ \E k \in 1..batch_size : SendTerminal(k)
  \/ \E c \in Channels : AddChannel(c)
  \/ \E c \in Channels : RemoveChannel(c)
  \/ seq = 0 /\ SchedulePost(0)

SpecFanout == InitFanout /\ [][NextFanout]_vars

\* Sends and retries: every outcome of every attempt, over MaxChannels
\* active destinations and posts scheduled for time 0.
InitSend == InitWith(AllActive(MaxChannels))

NextSend ==
  \/ Poster
  \/ Sender
  \/ seq < MaxPosts - 1 /\ SchedulePost(0)

SpecSend == InitSend /\ [][NextSend]_vars

\* Progress: posts scheduled for the first and for the last instant, more
\* of them than one due query returns, the clock, the poster and a sender
\* that succeeds or fails terminally, over one destination.  The background
\* loop is always scheduled again (asyncio runs every ready task) and the
\* bot's send always returns or raises (its timeouts are set).
InitLive == InitWith(AllActive(1))

PosterLive ==
  \/ PollStart
  \/ BatchDone
  \/ Sleep1Done

SenderLive ==
  \/ SendOk(1)
  \/ SendTerminal(1)

NextLive ==
  \/ PosterLive
  \/ SenderLive
  \/ \E t \in {0, MaxTime} : SchedulePost(t)
  \/ Tick

SpecLive ==
  InitLive /\ [][NextLive]_vars /\ WF_vars(PosterLive) /\ WF_vars(SenderLive)

\* Store errors: the poster with its three failing statements, posts
\* scheduled for the first and for the last instant, more of them than one
\* due query returns, the clock and a sender that succeeds or fails
\* terminally, over a fixed list of no channel or of one channel.
InitError == \E n \in {0, 1} : InitWith(AllActive(n))

NextError ==
  \/ PosterLive
  \/ PosterFails
  \/ SenderLive
  \/ \E t \in {0, MaxTime} : SchedulePost(t)
  \/ Tick

SpecError == InitError /\ [][NextError]_vars

\* SPACED planning: the operator's compose session in 'bulk' mode, with
\* every start instant, duration and number of buffered posts, over one
\* destination; the poster does not run.
InitPlan == InitWith(AllActive(1))

NextPlan == ComposeBulk \/ Cancel

SpecPlan == InitPlan /\ [][NextPlan]_vars

\* The SPACED scenario: posts are composed in 'bulk' mode with a duration
\* of 10 minutes and any start time; up to MaxPosts posts are buffered.
InitSpaced10 == InitWith(AllActive(1))

NextSpaced10 ==
  \/ ChooseBulk
  \/ \E t \in Times : BulkStartTime(t)
  \/ BulkDuration(10)
  \/ BulkCollect
  \/ BulkDone
  \/ BulkConfirm
  \/ Cancel

SpecSpaced10 == InitSpaced10 /\ [][NextSpaced10]_vars

\* GROUPED planning: the compose session in 'batch' mode, with every start
\* instant, duration, batch size and number of buffered posts.
InitGrouped == InitWith(AllActive(1))

NextGrouped == ComposeBatch \/ Cancel

SpecGrouped == InitGrouped /\ [][NextGrouped]_vars

\* The GROUPED scenario: one compose flow in 'batch' mode with a duration of
\* 60 minutes and batches of 10, in which the operator buffers up to 25
\* posts.
InitGrouped25 == InitWith(AllActive(1))

NextGrouped25 ==
  \/ seq = 0 /\ ChooseBatch
  \/ \E t \in Times : BatchStartTime(t)
  \/ BatchDuration(60)
  \/ BatchSize(10)
  \/ BatchCollect(25)
  \/ BatchPostsDone
  \/ BatchConfirm(25)
  \/ Cancel

SpecGrouped25 == InitGrouped25 /\ [][NextGrouped25]_vars

\* The compose session in all four modes, with the inputs it rejects, the
\* cancel signal and replies that fail; the poster does not run.
InitCompose == InitWith(AllActive(1))

NextCompose == Compose

SpecCompose == InitCompose /\ [][NextCompose]_vars

(***************************************************************************)
(* Properties                                                              *)
(***************************************************************************)
\* The send_to_all_channels update has run for post p.
WasMarked(p) == updates[p] > 0

\* This step starts an attempt of a send (a new send_to_channel, or the
\* next attempt of one).
StartsSend ==
  \E k \in DOMAIN tasks' :
    /\ tasks'[k].st = "sending"
    /\ (k \notin DOMAIN tasks \/ tasks'[k] # tasks[k])

\* Every send_to_channel of the batch has returned.
AllReturned == \A k \in DOMAIN tasks : Finished(tasks[k])

\* This step is gather's return: the batch's coroutines are dropped.
BatchOver == pc = "gather" /\ AllReturned /\ (tasks' = << >> \/ i' # i)

DispatchedSet == { c \in Channels : dispatched[c] > 0 }

\* C1: once send_to_all_channels has marked a post delivered, no later due
\* query of process_due_posts returns it and no attempt of a send is started
\* for it.
C1_NoRedelivery ==
  [][ /\ cycle_posts' # cycle_posts =>
           \A k \in DOMAIN cycle_posts' : ~WasMarked(cycle_posts'[k].id)
      /\ StartsSend => ~WasMarked(cycle_posts'[idx'].id) ]_vars

\* A delivered post is in the store while a later cycle, which did not
\* fetch it, is sending another post.
C1_Witness ==
  \E p \in DOMAIN posts :
    /\ posts[p].posted = 1
    /\ pc = "gather"
    /\ \A k \in DOMAIN cycle_posts : cycle_posts[k].id # p

\* C2: at the end of a fan-out, every destination that was active from its
\* start to its end has been dispatched to exactly once.
C2_ExactlyOnce ==
  pc = "sleep1" => \A c \in stable : dispatched[c] = 1

\* C3 as stated: a delivered post's successful_posts is at most its
\* total_channels, the count taken when it was scheduled.
C3_WithinSnapshot ==
  \A p \in DOMAIN posts :
    posts[p].posted = 1 => posts[p].successful_posts <= posts[p].total_channels

\* C3 amended: the successful_posts written when a fan-out ends is at most
\* the number of sends that fan-out dispatched, and is not changed later.
C3_WithinDispatched ==
  /\ [](pc = "sleep1" /\ CurPost.id \in DOMAIN posts =>
          /\ posts[CurPost.id].posted = 1
          /\ posts[CurPost.id].successful_posts <= TotalDispatched(dispatched))
  /\ [][ \A p \in DOMAIN posts \cap DOMAIN posts' :
           posts[p].posted = 1 =>
             posts'[p].successful_posts = posts[p].successful_posts ]_vars

\* A fan-out has ended with more successes than the post's total_channels.
C3_Witness ==
  /\ pc = "sleep1"
  /\ CurPost.id \in DOMAIN posts
  /\ posts[CurPost.id].posted = 1
  /\ posts[CurPost.id].successful_posts > posts[CurPost.id].total_channels

\* C4: no step takes a row of posts from posted = 1 back to posted = 0, and
\* no new row reuses an id.
C4_Monotonic ==
  [][ /\ \A p \in DOMAIN posts \cap DOMAIN posts' :
           posts[p].posted = 1 => posts'[p].posted = 1
      /\ \A p \in DOMAIN posts' \ DOMAIN posts : p > seq ]_vars

\* A delivered post and a pending post are in the store together.
C4_Witness ==
  \E p, q \in DOMAIN posts : posts[p].posted = 1 /\ posts[q].posted = 0

\* C5: posted_at is NULL while posted = 0, is set to the time of the update
\* in the step that sets posted = 1, and is never written afterwards; the
\* update runs at most once per post.
C5_DeliveredAt ==
  /\ [](\A p \in DOMAIN posts :
          /\ posts[p].posted = 0 => posts[p].posted_at = NULL
          /\ posts[p].posted = 1 => posts[p].posted_at # NULL)
  /\ [](\A p \in PostIds : updates[p] <= 1)
  /\ [][ \A p \in DOMAIN posts \cap DOMAIN posts' :
           /\ posts[p].posted = 1 => posts'[p].posted_at = posts[p].posted_at
           /\ posts[p].posted = 0 /\ posts'[p].posted = 1 =>
                posts'[p].posted_at = {now} ]_vars

\* A post delivered at time 0 is still in the store at a later time.
C5_Witness ==
  \E p \in DOMAIN posts :
    posts[p].posted = 1 /\ posts[p].posted_at = {0} /\ now > 0 /\ updates[p] = 1

\* C6: channel_ids holds exactly the store's active ids, and the destinations
\* a fan-out dispatched to are exactly the ids active when it started.
C6_LiveSet ==
  /\ Range(channel_ids) = ActiveSet(channels)
  /\ pc = "sleep1" => DispatchedSet = at_start

C8_TerminalNoRetry ==
  /\ [](\A k \in DOMAIN tasks :
          tasks[k].err = "terminal" =>
            tasks[k].st = "failed" /\ Len(tasks[k].waits) = tasks[k].attempt)
  /\ [][ \A k \in DOMAIN tasks :
           tasks[k].st = "failed" =>
             \/ BatchOver
             \/ (k \in DOMAIN tasks' /\ tasks'[k] = tasks[k]) ]_vars

\* A send has failed terminally after two retryable failures.
C8_Witness ==
  \E k \in DOMAIN tasks :
    tasks[k].err = "terminal" /\ tasks[k].st = "failed" /\ tasks[k].attempt = 2

\* C9: when the bot's send returns in a send that had k retryable failures,
\* the send returns True at once, having waited 3*(1+...+k) seconds; it
\* attempts nothing more, and gather's return adds it to successful.
C9_SuccessAfterRetries ==
  /\ [](\A k \in DOMAIN tasks :
          tasks[k].st = "ok" =>
            /\ tasks[k].attempt \in 0..4
            /\ Len(tasks[k].waits) = tasks[k].attempt
            /\ SumSeq(tasks[k].waits) =
                 3 * ((tasks[k].attempt * (tasks[k].attempt + 1)) \div 2))
  /\ [][ /\ ok_returns' = ok_returns + 1 =>
              \E k \in DOMAIN tasks :
                /\ tasks[k].st = "sending"
                /\ tasks' = [tasks EXCEPT ![k] = [tasks[k] EXCEPT !.st = "ok"]]
         /\ \A k \in DOMAIN tasks :
              tasks[k].st = "ok" =>
                \/ BatchOver
                \/ (k \in DOMAIN tasks' /\ tasks'[k] = tasks[k])
         /\ BatchOver =>
              successful' = successful
                + Cardinality({ k \in DOMAIN tasks : tasks[k].st = "ok" }) ]_vars

\* A send has succeeded on its 3rd attempt after waiting 3 s and 6 s.
C9_Witness ==
  \E k \in DOMAIN tasks :
    /\ tasks[k].st = "ok"
    /\ tasks[k].attempt = 2
    /\ tasks[k].waits = << 3, 6 >>
    /\ SumSeq(tasks[k].waits) = 9

\* C10: when a fan-out has ended, the successful it returns and the
\* successful_posts it wrote equal the number of its sends that succeeded;
\* the update ran once for the post, in a step in which every send of the
\* last batch had returned and no further batch was dispatched.
C10_SuccessCount ==
  /\ [](pc = "sleep1" =>
          /\ successful = ok_returns
          /\ updates[CurPost.id] = 1
          /\ CurPost.id \in DOMAIN posts =>
               /\ posts[CurPost.id].posted = 1
               /\ posts[CurPost.id].successful_posts = ok_returns)
  /\ [][ updates' # updates =>
           /\ AllReturned
           /\ pc' = "sleep1"
           /\ ~StartsSend
           /\ \E p \in PostIds : updates' = [updates EXCEPT ![p] = @ + 1] ]_vars

\* A fan-out of two batches has ended with some sends succeeded and some
\* failed.
C10_Witness ==
  /\ pc = "sleep1"
  /\ TotalDispatched(dispatched) > batch_size
  /\ ok_returns > 0
  /\ ok_returns < TotalDispatched(dispatched)
  /\ posts[CurPost.id].successful_posts = ok_returns

\* C11: when a fan-out has ended its post is marked delivered whatever the
\* sends returned, with successful_posts = 0 and no send when the channel
\* list was empty; and no attempt of a send is ever started for a post whose
\* row is marked delivered, so a destination that failed is not sent the
\* post by a later cycle.
C11_ClosedDespiteFailure ==
  /\ [](pc = "sleep1" /\ CurPost.id \in DOMAIN posts =>
          /\ posts[CurPost.id].posted = 1
          /\ TotalDispatched(dispatched) = 0 =>
               posts[CurPost.id].successful_posts = 0)
  /\ [][ StartsSend =>
           (cycle_posts'[idx'].id \in DOMAIN posts' =>
              posts'[cycle_posts'[idx'].id].posted = 0) ]_vars

\* A post whose only destination failed is marked delivered with no
\* success, and a later cycle is sending another post.
C11_Witness ==
  \E p \in DOMAIN posts :
    /\ posts[p].posted = 1
    /\ posts[p].total_channels = 1
    /\ posts[p].successful_posts = 0
    /\ pc = "gather"
    /\ CurPost.id # p


\* C12: the lock is held exactly while a poll cycle is executing; a cycle
\* begins only when none is executing, from the free lock, which it takes;
\* and a fan-out starts only when no send of another fan-out is outstanding.
C12_OneCycle ==
  /\ [](posting_lock <=> pc # "idle")
  /\ [](pc = "idle" => cycle_posts = << >> /\ idx = 0 /\ tasks = << >>)
  /\ [][ /\ (cycle_posts' # cycle_posts /\ cycle_posts' # << >>) =>
              (~posting_lock /\ posting_lock' /\ cycle_posts = << >> /\ idx = 0)
         /\ (idx' # idx /\ idx' > 0) => tasks = << >> ]_vars

\* A cycle holds the lock in a fan-out's gather while another post, which
\* it did not fetch, is due.
C12_Witness ==
  /\ posting_lock
  /\ pc = "gather"
  /\ \E p \in DOMAIN posts :
       /\ IsDue(posts[p], now)
       /\ \A k \in DOMAIN cycle_posts : cycle_posts[k].id # p


\* C14: every row a cycle fetched has scheduled_time <= the clock, with the
\* scheduled_time its row in the store has, and no attempt of a send is
\* started for a post at a time before its scheduled_time.
C14_NotBeforeDue ==
  /\ [](\A k \in DOMAIN cycle_posts :
          /\ cycle_posts[k].scheduled_time <= now
          /\ cycle_posts[k].id \in DOMAIN posts =>
               posts[cycle_posts[k].id].scheduled_time = cycle_posts[k].scheduled_time)
  /\ [][ StartsSend => cycle_posts'[idx'].scheduled_time <= now' ]_vars

\* A post scheduled for the current instant is being sent while a post
\* scheduled for a later instant waits.
C14_Witness ==
  /\ pc = "gather"
  /\ now > 0
  /\ CurPost.scheduled_time = now
  /\ \E p \in DOMAIN posts :
       posts[p].posted = 0 /\ posts[p].scheduled_time > now


\* C15: the rows of a cycle are in ascending scheduled_time order; the cycle
\* takes them one at a time in that order, and the fan-out of a row starts
\* (and any of its sends is attempted) only after the update of
\* send_to_all_channels has run for every row before it.
C15_InOrder ==
  /\ [](\A a, b \in DOMAIN cycle_posts :
          a < b => cycle_posts[a].scheduled_time <= cycle_posts[b].scheduled_time)
  /\ [](\A k \in DOMAIN cycle_posts : k < idx => WasMarked(cycle_posts[k].id))
  /\ [][ /\ (idx' # idx /\ idx' > 0) =>
              /\ idx' = idx + 1
              /\ (idx > 0 => (cycle_posts' = cycle_posts /\ pc = "sleep1"))
         /\ StartsSend =>
              \A k \in DOMAIN cycle_posts' :
                k < idx' => updates'[cycle_posts'[k].id] > 0 ]_vars

\* The second row of a cycle is being sent: the cycle took post 2, which
\* has the earlier scheduled_time, before post 1.
C15_Witness ==
  /\ pc = "gather"
  /\ Len(cycle_posts) = 2
  /\ idx = 2
  /\ cycle_posts[1].id = 2
  /\ cycle_posts[2].id = 1
  /\ cycle_posts[1].scheduled_time < cycle_posts[2].scheduled_time


\* The set of ids of the rows the cycle fetched.
Fetched(rows) == { rows[k].id : k \in DOMAIN rows }

\* The pending posts whose scheduled_time has passed.
DuePosts ==
  { p \in DOMAIN posts : posts[p].posted = 0 /\ posts[p].scheduled_time <= now }

\* This step is a poll cycle's due query, which returned rows.
CycleStarts == pc = "idle" /\ cycle_posts' # << >>

\* Every pending post whose scheduled_time has passed is eventually marked
\* delivered or deleted.
EventuallyDelivered ==
  \A p \in PostIds :
    (p \in DuePosts) ~> (p \notin DOMAIN posts \/ posts[p].posted = 1)

Raises(e) ==
  /\ logged_error' = e
  /\ pc' = "idle"
  /\ (pc # "idle" \/ logged_error # e)

\* C17: when the due query, the update or the cleanup raises, the poster is
\* back in its 15 s sleep with the lock released and no cycle's state left;
\* whenever the poster is in that sleep the lock is free, which is all the
\* next cycle waits for.
C17_LoopSurvives ==
  /\ [](logged_error # "none" => pc = "idle")
  /\ [](pc = "idle" => ~posting_lock)
  /\ [][ \A e \in {"query", "update", "cleanup"} :
           Raises(e) => (~posting_lock' /\ cycle_posts' = << >> /\ tasks' = << >>) ]_vars

\* The update has raised after a send: the poster sleeps with the lock free
\* and the post, still pending, is due for the next cycle.
C17_Witness ==
  /\ logged_error = "update"
  /\ pc = "idle"
  /\ ~posting_lock
  /\ Len(channel_ids) = 1
  /\ DuePosts # {}


\* This step abandons a poll cycle on an error of the due query or of the
\* update.
CycleAborts == Raises("query") \/ Raises("update")

\* The posts the aborting cycle had fetched (or, aborting from the sleep,
\* was fetching) and not yet updated.
Unmarked ==
  { p \in DOMAIN posts :
      /\ posts[p].posted = 0
      /\ \/ p \in Fetched(cycle_posts)
         \/ pc = "idle" /\ p \in Fetched(due_query(posts, now)) }

\* C19 as stated: when a store error abandons a cycle, no row of posts
\* changes, and every post the cycle had not marked is returned by the due
\* query of the next cycle, run on the store as the abort leaves it.
C19_SelectedAgain ==
  [][ CycleAborts =>
        /\ posts' = posts
        /\ updates' = updates
        /\ Unmarked \subseteq Fetched(due_query(posts', now')) ]_vars

\* C19 amended: when a store error abandons a cycle, no row of posts
\* changes, every post the cycle had not marked is still pending and due,
\* the lock is free, and a cycle's due query returns the due posts up to its
\* limit, earliest scheduled_time first.
C19_StaysDue ==
  /\ [][ CycleAborts =>
           /\ posts' = posts
           /\ updates' = updates
           /\ ~posting_lock'
           /\ \A p \in Unmarked :
                p \in DOMAIN posts' /\ posts'[p].posted = 0
                  /\ posts'[p].scheduled_time <= now' ]_vars
  /\ [][ CycleStarts =>
           /\ Len(cycle_posts') = Min(due_limit, Cardinality(DuePosts))
           /\ \A p \in Fetched(cycle_posts') :
                /\ p \in DuePosts
                /\ \A q \in DuePosts \ Fetched(cycle_posts') :
                     posts[p].scheduled_time <= posts[q].scheduled_time ]_vars

\* The update of a post whose send succeeded has raised: the post is
\* pending with its fields as scheduled, and due for the next cycle.
C19_Witness ==
  /\ logged_error = "update"
  /\ pc = "idle"
  /\ Len(channel_ids) = 1
  /\ \E p \in DuePosts :
       /\ posts[p].posted_at = NULL
       /\ posts[p].successful_posts = 0
       /\ updates[p] = 0


\* This step is the failure of send k: it returns False.
Fails(k) ==
  /\ k \in DOMAIN tasks
  /\ k \in DOMAIN tasks'
  /\ tasks[k].st # "failed"
  /\ tasks'[k].st = "failed"

\* C18: a send ends by returning, never by raising into gather; the step in
\* which a send fails changes nothing but that send; when a fan-out has
\* ended, whatever its sends returned, every destination of the list has
\* been dispatched to once and the post is marked delivered; and when a
\* cycle ends, the update has run for every post it fetched.
C18_FailureIsolated ==
  /\ [](\A k \in DOMAIN tasks : tasks[k].st \in {"sending", "backoff", "ok", "failed"})
  /\ [](pc = "sleep1" =>
          /\ \A c \in Range(channel_ids) : dispatched[c] = 1
          /\ posts[CurPost.id].posted = 1)
  /\ [][ /\ \A k \in 1..batch_size :
              Fails(k) =>
                /\ pc' = pc /\ posting_lock' /\ idx' = idx
                /\ cycle_posts' = cycle_posts /\ posts' = posts
                /\ \A j \in DOMAIN tasks : j # k => tasks'[j] = tasks[j]
         /\ (pc = "sleep1" /\ pc' = "idle") =>
              \A k \in DOMAIN cycle_posts : WasMarked(cycle_posts[k].id) ]_vars

\* The fan-out of a cycle's second post has ended with one failed send,
\* after every send of the cycle's first post had failed.
C18_Witness ==
  /\ pc = "sleep1"
  /\ idx = 2
  /\ posts[cycle_posts[1].id].posted = 1
  /\ posts[cycle_posts[1].id].successful_posts = 0
  /\ posts[CurPost.id].posted = 1
  /\ posts[CurPost.id].successful_posts = MaxChannels - 1


Abs(x) == IF x < 0 THEN -x ELSE x

\* This step is schedule_bulk_posts.
BulkCommits == user_sessions.step = "bulk_confirm" /\ posts' # posts

\* The scheduled_time schedule_bulk_posts gave buffered item k (0-based).
PlannedTime(k) == posts'[seq + 1 + k].scheduled_time

ScenarioA ==
  /\ BulkCommits
  /\ Len(user_sessions.posts) = 3
  /\ user_sessions.duration_minutes = 10

\* C21 as stated: 3 items in SPACED mode with start T0 and duration 10
\* minutes are scheduled at T0, T0 + 5 min and T0 + 10 min.
C21_HalfAndFull ==
  [][ ScenarioA =>
        LET T0 == user_sessions.bulk_start_time_utc
        IN /\ PlannedTime(0) = T0
           /\ PlannedTime(1) = T0 + 5
           /\ PlannedTime(2) = T0 + 10 ]_vars

\* C21 amended: they are scheduled at T0, T0 + 10/3 min and T0 + 20/3 min
\* (3 min 20 s and 6 min 40 s), each to the clock's resolution; all of them
\* before T0 + 10 min.
C21_Thirds ==
  [][ ScenarioA =>
        LET T0 == user_sessions.bulk_start_time_utc
        IN /\ seq' = seq + 3
           /\ PlannedTime(0) = T0
           /\ 2 * Abs(3 * (PlannedTime(1) - T0) - 10) <= 3
           /\ 2 * Abs(3 * (PlannedTime(2) - T0) - 20) <= 3
           /\ PlannedTime(2) < T0 + 10 ]_vars

\* The three posts of the scenario with T0 = 2 are in the store: the third
\* is at 2 + 7.
C21_Witness ==
  /\ seq = 3
  /\ DOMAIN posts = {1, 2, 3}
  /\ posts[1].scheduled_time = 2
  /\ posts[2].scheduled_time = 5
  /\ posts[3].scheduled_time = 9
  /\ \A p \in 1..3 : posts[p].posted = 0


\* This step is schedule_batch_posts.
BatchCommits == user_sessions.step = "batch_confirm" /\ posts' # posts

\* ceil(n / b) for n >= 1, b >= 1
CeilDiv(n, b) == CHOOSE m \in 1..n : m * b >= n /\ (m - 1) * b < n

ItemsOfBatch(b, N, B) == { k \in 0..(N - 1) : batch_number(k, B) = b }

\* C23: in GROUPED planning every item is in exactly one batch, there are
\* ceil(N/B) non-empty batches, every batch but the last holds exactly B
\* items, and the batches' start offsets (the offset of a batch's first
\* item) do not decrease with the batch index.
C23_BatchPartition ==
  [][ BatchCommits =>
        LET N  == Len(user_sessions.posts)
            B  == user_sessions.batch_size
            S  == user_sessions.batch_start_time_utc
            NB == CeilDiv(N, B)
            NonEmpty == { b \in 0..(N - 1) : ItemsOfBatch(b, N, B) # {} }
        IN /\ \A k \in 0..(N - 1) :
                Cardinality({ b \in 0..(N - 1) : k \in ItemsOfBatch(b, N, B) }) = 1
           /\ NonEmpty = 0..(NB - 1)
           /\ \A b \in 0..(NB - 2) : Cardinality(ItemsOfBatch(b, N, B)) = B
           /\ \A b \in 0..(NB - 2) :
                PlannedTime(b * B) - S <= PlannedTime((b + 1) * B) - S ]_vars


\* This step is schedule_batch_posts for 25 buffered items, batches of 10
\* and a duration of 60 minutes.
ScenarioB ==
  /\ BatchCommits
  /\ Len(user_sessions.posts) = 25
  /\ user_sessions.batch_size = 10
  /\ user_sessions.duration_minutes = 60

\* Items first..last are the batch that starts at offset off from T0: item
\* first is scheduled at T0 + off, the others 2 seconds apart after it.
BatchAt(first, last, off) ==
  \A k \in first..last :
    /\ batch_number(k, 10) = batch_number(first, 10)
    /\ PlannedTime(k) =
         user_sessions.batch_start_time_utc + off + two_seconds * (k - first)

\* C24 as stated: the 25 items make 3 batches at offsets 0, 30 min and
\* 60 min: items 0-9, items 10-19 and items 20-24.
C24_HalfHourBatches ==
  [][ ScenarioB =>
        /\ BatchAt(0, 9, 0)
        /\ BatchAt(10, 19, 30)
        /\ BatchAt(20, 24, 60) ]_vars

\* C24 amended: the 3 batches are at offsets 0, 20 min and 40 min (items
\* 0-9, 10-19 and 20-24, the items of a batch 2 seconds apart).
C24_ThirdsOfHour ==
  [][ ScenarioB =>
        /\ seq' = seq + 25
        /\ { batch_number(k, 10) : k \in 0..24 } = {0, 1, 2}
        /\ BatchAt(0, 9, 0)
        /\ BatchAt(10, 19, 20)
        /\ BatchAt(20, 24, 40) ]_vars

\* The 25 posts of the scenario with T0 = 0 are in the store.
C24_Witness ==
  /\ seq = 25
  /\ DOMAIN posts = 1..25
  /\ posts[1].scheduled_time = 0
  /\ posts[10].scheduled_time = 9 * two_seconds
  /\ posts[11].scheduled_time = 20
  /\ posts[21].scheduled_time = 40
  /\ posts[25].scheduled_time = 40 + 4 * two_seconds


\* This step runs cleanup_posted_content: background_poster's counter
\* reaches 2 and is set back to 0.
CleanupRuns == cleanup_counter > 0 /\ cleanup_counter' = 0

\* The posts delivered before the cutoff.
DeliveredBefore(cutoff) ==
  { p \in DOMAIN posts :
      /\ posts[p].posted = 1
      /\ posts[p].posted_at # NULL
      /\ \A t \in posts[p].posted_at : t < cutoff }

\* C25: a cleanup run with cutoff = now - retention window removes exactly
\* the posts that are delivered with posted_at < cutoff and returns their
\* number: pending posts and posts delivered at or after the cutoff stay,
\* unchanged.
C25_PurgeExactly ==
  [][ CleanupRuns =>
        LET Old == DeliveredBefore(now - auto_cleanup_minutes)
        IN /\ DOMAIN posts' = DOMAIN posts \ Old
           /\ \A p \in DOMAIN posts' : posts'[p] = posts[p]
           /\ count_to_delete(posts, now) = Cardinality(Old) ]_vars

\* The last cycle ended with a cleanup and post 1 is gone (nothing else
\* removes a post here), while a post delivered exactly the window ago and
\* a pending post scheduled before the cutoff are in the store.
C25_Witness ==
  /\ pc = "idle"
  /\ cleanup_counter = 0
  /\ seq >= 1
  /\ 1 \notin DOMAIN posts
  /\ \E p \in DOMAIN posts :
       posts[p].posted = 1 /\ posts[p].posted_at = {now - auto_cleanup_minutes}
  /\ \E p \in DOMAIN posts :
       posts[p].posted = 0 /\ posts[p].scheduled_time < now - auto_cleanup_minutes


\* This step is the cancel handler (its reply sent or not).
Cancels == outcome' \in {"cancelled", "cancelled: TelegramError"} /\ outcome' # outcome

\* C26: cancellation at any step of any compose mode leaves the session
\* {mode: None, step: choose_mode}, without buffer or timing parameters, and
\* leaves the post store as it was.
C26_CancelResets ==
  [][ Cancels =>
        /\ user_sessions' = [mode |-> "None", step |-> "choose_mode"]
        /\ posts' = posts
        /\ seq' = seq ]_vars

\* A cancel whose reply failed has reset the session, and nothing was
\* scheduled.
C26_Witness ==
  /\ outcome = "cancelled: TelegramError"
  /\ DOMAIN user_sessions = {"mode", "step"}
  /\ user_sessions.step = "choose_mode"
  /\ posts = << >>
  /\ seq = 0


\* This step is a commit: a confirm step creates posts.
Commits == user_sessions.step \in ConfirmSteps /\ posts' # posts

\* The number of items the session holds at a confirm step.
Buffered ==
  IF user_sessions.step \in {"bulk_confirm", "batch_confirm"}
  THEN Len(user_sessions.posts)
  ELSE 1

\* C27: a confirmation at a confirm step creates one pending post per
\* buffered item, in buffer order, and resets the session to choose_mode,
\* so that a second confirmation creates nothing.
C27_CommitOnce ==
  [][ Commits =>
        /\ seq' = seq + Buffered
        /\ DOMAIN posts' = DOMAIN posts \cup (seq + 1)..(seq + Buffered)
        /\ \A p \in (seq + 1)..(seq + Buffered) : posts'[p].posted = 0
        /\ \A p \in DOMAIN posts : posts'[p] = posts[p]
        /\ user_sessions' = NewSession ]_vars


\* This step handles an input at a time, duration or batch-size step that
\* was not accepted and was no cancel signal.
Rejects ==
  /\ user_sessions.step \in TimeSteps \cup DurationSteps \cup {"batch_get_batch_size"}
  /\ outcome' \notin {"prompt", "cancelled", "cancelled: TelegramError"}

\* C28: at a time, duration or batch-size step an input that is neither
\* valid nor a cancel signal is answered with the prompt again, no error
\* leaves the handler, and the session and the post store are unchanged.
C28_FormatErrorOnly ==
  [][ Rejects =>
        /\ outcome' = "reprompt"
        /\ user_sessions' = user_sessions
        /\ posts' = posts
        /\ seq' = seq ]_vars


\* C29: the done signal with an empty buffer leaves the session in its
\* collection step (only a cancel leaves the step while the buffer is
\* empty); a SPACED or GROUPED confirm step always has at least one
\* buffered item, and its commit creates at least one post.
C29_NoEmptyCommit ==
  /\ [](user_sessions.step \in {"bulk_confirm", "batch_confirm"} =>
          Len(user_sessions.posts) >= 1)
  /\ [][ user_sessions.step \in CollectSteps /\ user_sessions.posts = << >> =>
           \/ user_sessions'.step = "choose_mode"
           \/ /\ user_sessions'.step = user_sessions.step
              /\ user_sessions'.mode = user_sessions.mode ]_vars
  /\ [][ user_sessions.step \in {"bulk_confirm", "batch_confirm"}
           /\ outcome' \in {"scheduled", "scheduled: TelegramError"} =>
           seq' > seq /\ DOMAIN posts' # DOMAIN posts ]_vars

\* The done signal was just rejected: the session is in a collection step
\* with an empty buffer (nothing else is answered with the prompt again
\* there).
C29_Witness ==
  /\ user_sessions.step \in CollectSteps
  /\ user_sessions.posts = << >>
  /\ outcome = "reprompt"


\* The steps of the four modes in their order.
StepOrder ==
  { << "choose_mode", "bulk_get_start_time" >>,
    << "bulk_get_start_time", "bulk_get_duration" >>,
    << "bulk_get_duration", "bulk_collect_posts" >>,
    << "bulk_collect_posts", "bulk_confirm" >>,
    << "choose_mode", "batch_get_start_time" >>,
    << "batch_get_start_time", "batch_get_duration" >>,
    << "batch_get_duration", "batch_get_batch_size" >>,
    << "batch_get_batch_size", "batch_collect_posts" >>,
    << "batch_collect_posts", "batch_confirm" >>,
    << "choose_mode", "exact_get_time" >>,
    << "exact_get_time", "exact_get_content" >>,
    << "exact_get_content", "exact_confirm" >>,
    << "choose_mode", "duration_get_time" >>,
    << "duration_get_time", "duration_get_content" >>,
    << "duration_get_content", "duration_confirm" >> }

\* What a commit reads from the session at each confirm step.
ReadAtCommit(step) ==
  CASE step = "bulk_confirm" ->
         {"posts", "duration_minutes", "bulk_start_time_utc"}
    [] step = "batch_confirm" ->
         {"posts", "duration_minutes", "batch_size", "batch_start_time_utc"}
    [] step \in {"exact_confirm", "duration_confirm"} ->
         {"content", "scheduled_time_utc"}
    [] OTHER -> {}

\* C30: posts are created only by a step taken at a confirm step; a session
\* at choose_mode holds nothing of an earlier flow; the step changes only
\* to the next step of the same mode or back to choose_mode; and at a
\* confirm step every parameter the commit reads is in the session.
C30_StepsInOrder ==
  /\ [][ posts' # posts => user_sessions.step \in ConfirmSteps ]_vars
  /\ [](user_sessions.step = "choose_mode" => user_sessions = NewSession)
  /\ [][ user_sessions'.step # user_sessions.step =>
           \/ user_sessions'.step = "choose_mode"
           \/ /\ << user_sessions.step, user_sessions'.step >> \in StepOrder
              /\ user_sessions.step # "choose_mode" =>
                   /\ user_sessions'.mode = user_sessions.mode
                   /\ \A k \in DOMAIN user_sessions \ {"step", "posts", "content"} :
                        k \in DOMAIN user_sessions' /\ user_sessions'[k] = user_sessions[k] ]_vars
  /\ [](ReadAtCommit(user_sessions.step) \subseteq DOMAIN user_sessions)

\* A flow went through its steps to the confirm step and its commit, whose
\* reply was sent, created three posts from the start time 2 on.
C30_Witness ==
  /\ outcome = "scheduled"
  /\ user_sessions = NewSession
  /\ seq = 3
  /\ DOMAIN posts = {1, 2, 3}
  /\ posts[1].scheduled_time = 2
  /\ posts[2].scheduled_time = 2 + two_seconds
  /\ posts[3].scheduled_time = 2 + 2 * two_seconds


(***************************************************************************)
(* The time resolver.  A message text is a sequence of characters.         *)
(***************************************************************************)
DigitValue == [ c \in {"0", "1", "2", "3", "4", "5", "6", "7", "8", "9"} |->
                CASE c = "0" -> 0 [] c = "1" -> 1 [] c = "2" -> 2
                  [] c = "3" -> 3 [] c = "4" -> 4 [] c = "5" -> 5
                  [] c = "6" -> 6 [] c = "7" -> 7 [] c = "8" -> 8
                  [] c = "9" -> 9 ]

\* A call that returned v, and a call that raised e.
Returned(v) == [ raised |-> "none", value |-> v ]

Raise(e) == [ raised |-> e, value |-> 0 ]

\* text.strip()
RECURSIVE strip(_)
strip(text) ==
  IF text = << >> THEN text
  ELSE IF Head(text) = " " THEN strip(Tail(text))
  ELSE IF text[Len(text)] = " " THEN strip(SubSeq(text, 1, Len(text) - 1))
  ELSE text

\* text.startswith(word)
startswith(text, word) ==
  Len(text) >= Len(word) /\ SubSeq(text, 1, Len(word)) = word

\* word in text
RECURSIVE contains(_, _)
contains(text, word) ==
  IF Len(text) < Len(word) THEN FALSE
  ELSE startswith(text, word) \/ contains(Tail(text), word)

\* text.replace(word, '')
RECURSIVE remove_all(_, _)
remove_all(text, word) ==
  IF Len(text) < Len(word) \/ word = << >> THEN text
  ELSE IF startswith(text, word)
       THEN remove_all(SubSeq(text, Len(word) + 1, Len(text)), word)
       ELSE << Head(text) >> \o remove_all(Tail(text), word)

\* The value of a run of decimal digits.
RECURSIVE digits_value(_)
digits_value(ds) ==
  IF ds = << >> THEN 0
  ELSE 10 * digits_value(SubSeq(ds, 1, Len(ds) - 1)) + DigitValue[ds[Len(ds)]]

\* int(text): blanks around an optionally signed run of digits, anything
\* else is a ValueError.
int(text) ==
  LET t == strip(text)
      signed == t # << >> /\ Head(t) \in {"-", "+"}
      ds == IF signed THEN Tail(t) ELSE t
  IN IF ds # << >> /\ \A k \in 1..Len(ds) : ds[k] \in DOMAIN DigitValue
     THEN Returned(IF signed /\ Head(t) = "-" THEN 0 - digits_value(ds)
                   ELSE digits_value(ds))
     ELSE Raise("ValueError")

\* re.findall(r'\d+', text)[0]: the first run of digits, an IndexError when
\* there is none.
RECURSIVE leading_digits(_)
leading_digits(text) ==
  IF text = << >> \/ Head(text) \notin DOMAIN DigitValue THEN << >>
  ELSE << Head(text) >> \o leading_digits(Tail(text))

RECURSIVE first_digits(_)
first_digits(text) ==
  IF text = << >> THEN Raise("IndexError")
  ELSE IF Head(text) \in DOMAIN DigitValue THEN Returned(digits_value(leading_digits(text)))
  ELSE first_digits(Tail(text))

\* text.split(':')[0]
RECURSIVE before_colon(_)
before_colon(text) ==
  IF text = << >> \/ Head(text) = ":" THEN << >>
  ELSE << Head(text) >> \o before_colon(Tail(text))

\* parse_hour(text)
parse_hour(text) ==
  LET t == strip(text)
      am == contains(t, << "a", "m" >>)
      pm == contains(t, << "p", "m" >>)
      hour == first_digits(t)
      after_pm == IF pm /\ hour.value # 12 THEN hour.value + 12 ELSE hour.value
      after_am == IF am /\ after_pm = 12 THEN 0 ELSE after_pm
  IN IF am \/ pm
     THEN IF hour.raised # "none" THEN hour ELSE Returned(after_am)
     ELSE IF contains(t, << ":" >>) THEN int(before_colon(t))
     ELSE int(t)

\* The keywords 'tomorrow' and 'today'.
keyword == [ tomorrow |-> << "t", "o", "m", "o", "r", "r", "o", "w" >>,
             today |-> << "t", "o", "d", "a", "y" >> ]

\* parse_user_time_input(text) when get_ist_now() is now_ist, for lower-case
\* texts that are no exact date-time ('%Y-%m-%d %H:%M', '%m/%d %H:%M'): for
\* these both strptime calls raise and the final raise is reached.  The
\* duration suffix is tested before the keywords.
parse_user_time_input(text, now_ist) ==
  LET t == strip(text)
      last == t[Len(t)]
      body == SubSeq(t, 1, Len(t) - 1)
      tomorrow == now_ist + minutes_per_day
      tomorrow_part == strip(remove_all(t, keyword.tomorrow))
      today_part == strip(remove_all(t, keyword.today))
      \* now_ist + timedelta(<unit>=int(text[:-1]))
      after_duration(count, unit) ==
        IF count.raised # "none" THEN count
        ELSE Returned(now_ist + count.value * unit)
      \* datetime.combine(day.date(), datetime.min.time()) + timedelta(hours=hour)
      at_hour(day, hour) ==
        IF hour.raised # "none" THEN hour
        ELSE Returned(date_midnight(day) + hour.value * minutes_per_hour)
  IN IF t = << "n", "o", "w" >> THEN Returned(now_ist)
     ELSE IF t = << >> THEN Raise("IndexError")
     ELSE IF last = "m" THEN after_duration(int(body), 1)
     ELSE IF last = "h" THEN after_duration(int(body), minutes_per_hour)
     ELSE IF last = "d" THEN after_duration(int(body), minutes_per_day)
     ELSE IF startswith(t, keyword.tomorrow)
          THEN IF tomorrow_part # << >>
               THEN at_hour(tomorrow, parse_hour(tomorrow_part))
               ELSE Returned(tomorrow)
     ELSE IF startswith(t, keyword.today) /\ today_part # << >>
          THEN at_hour(now_ist, parse_hour(today_part))
     ELSE Raise("ValueError")

\* The texts of the time keyboards ("5m", "now", "today 18:00",
\* "tomorrow 9am") and texts of the other forms the resolver names.
time_text == [ at_now |-> << "n", "o", "w" >>,
          in_5m |-> << "5", "m" >>,
          tomorrow |-> << "t", "o", "m", "o", "r", "r", "o", "w" >>,
          today |-> << "t", "o", "d", "a", "y" >>,
          soon |-> << "s", "o", "o", "n" >>,
          today_18 |-> << "t", "o", "d", "a", "y", " ", "1", "8" >>,
          today_18_00 |-> << "t", "o", "d", "a", "y", " ", "1", "8", ":", "0", "0" >>,
          tomorrow_9 |-> << "t", "o", "m", "o", "r", "r", "o", "w", " ", "9" >>,
          tomorrow_9_30 |-> << "t", "o", "m", "o", "r", "r", "o", "w", " ", "9", ":", "3", "0" >>,
          tomorrow_9am |-> << "t", "o", "m", "o", "r", "r", "o", "w", " ", "9", "a", "m" >>,
          today_6pm |-> << "t", "o", "d", "a", "y", " ", "6", "p", "m" >> ]

TimeTexts == { time_text.at_now,
               time_text.in_5m,
               time_text.tomorrow,
               time_text.today,
               time_text.soon,
               time_text.today_18,
               time_text.today_18_00,
               time_text.tomorrow_9,
               time_text.tomorrow_9_30,
               time_text.tomorrow_9am,
               time_text.today_6pm }

\* A text at a time step: the resolved display-timezone instant is stored
\* in UTC and the next prompt is sent; a ValueError is answered with the
\* prompt again, any other error leaves the handler.
TimeText(text) ==
  /\ user_sessions.step \in TimeSteps
  /\ LET ist_time == parse_user_time_input(text, get_ist_now(now))
     IN IF ist_time.raised = "none"
        THEN \/ BulkStartTime(ist_to_utc(ist_time.value))
             \/ BatchStartTime(ist_to_utc(ist_time.value))
             \/ ExactTime(ist_to_utc(ist_time.value))
             \/ DurationTime(ist_to_utc(ist_time.value))
        ELSE SessionStep(user_sessions,
                         IF ist_time.raised = "ValueError" THEN "reprompt"
                         ELSE ist_time.raised)

\* The operator chooses a mode and answers the time prompt with a text of
\* TimeTexts, or cancels, while time passes.
InitResolve == InitWith(AllActive(1))

NextResolve ==
  \/ ChooseBulk
  \/ ChooseBatch
  \/ ChooseExact
  \/ ChooseDuration
  \/ \E text \in TimeTexts : TimeText(text)
  \/ Cancel
  \/ Tick

SpecResolve == InitResolve /\ [][NextResolve]_vars

\* The time a session holds after its time step.
SessionTime(s) ==
  IF s.mode = "bulk" THEN s.bulk_start_time_utc
  ELSE IF s.mode = "batch" THEN s.batch_start_time_utc
  ELSE s.scheduled_time_utc

\* 'today <hour>' and 'tomorrow <hour>' with the hour as 24h, H:MM or
\* Ham/Hpm, and the day and hour each one names.
HourTexts ==
  { [text |-> time_text.today_18, day |-> 0, hour |-> 18],
    [text |-> time_text.today_18_00, day |-> 0, hour |-> 18],
    [text |-> time_text.tomorrow_9, day |-> 1, hour |-> 9],
    [text |-> time_text.tomorrow_9_30, day |-> 1, hour |-> 9],
    [text |-> time_text.tomorrow_9am, day |-> 1, hour |-> 9],
    [text |-> time_text.today_6pm, day |-> 0, hour |-> 18] }

\* C31: a text 'today <hour>' or 'tomorrow <hour>' (hour as 24h, H:MM, Ham
\* or Hpm) sent at a time step is resolved to that hour of the current or
\* next display-timezone day, and is not answered with a format error.
C31_HourTextsResolve ==
  [][ \A h \in HourTexts :
        TimeText(h.text) =>
          /\ outcome' = "prompt"
          /\ user_sessions'.step \notin TimeSteps
          /\ SessionTime(user_sessions') =
               ist_to_utc(date_midnight(get_ist_now(now))
                          + h.day * minutes_per_day
                          + h.hour * minutes_per_hour) ]_vars


\* The rows of the channels table with channel_id c.
RowsOf(tbl, c) == { k \in DOMAIN tbl : tbl[k].channel_id = c }

\* C32: remove_channel deletes no record and only sets active = 0; add_channel
\* of an id that has a record sets that record back to active = 1; and at
\* every time there is at most one record per destination id.
C32_RemoveKeepsRecord ==
  /\ [](\A c \in Channels : Cardinality(RowsOf(channels, c)) <= 1)
  /\ [][ \A c \in Channels :
           /\ RemoveChannel(c) =>
                /\ DOMAIN channels' = DOMAIN channels
                /\ \A k \in DOMAIN channels :
                     channels'[k] = IF k \in RowsOf(channels, c)
                                    THEN [channels[k] EXCEPT !.active = 0]
                                    ELSE channels[k]
           /\ AddChannel(c) /\ HasRow(channels, c) =>
                /\ DOMAIN channels' = DOMAIN channels
                /\ \A k \in DOMAIN channels :
                     channels'[k] = IF k \in RowsOf(channels, c)
                                    THEN [channels[k] EXCEPT !.active = 1]
                                    ELSE channels[k] ]_vars

\* Every destination id has a record, a removed one among them is kept as
\* inactive, and the last id, added after the start, is active.
C32_Witness ==
  /\ \A c \in Channels : Cardinality(RowsOf(channels, c)) = 1
  /\ \E k \in DOMAIN channels : channels[k].active = 0
  /\ MaxChannels \in ActiveSet(channels)


\* A batch is handed to gather.
BatchStarts == pc' = "gather" /\ (pc # "gather" \/ i' # i)

\* The batch loop of a fan-out is over.
LoopEnds == pc \in {"idle", "sleep1", "gather", "sleep2"} /\ pc' = "sleep1"
            /\ (updates' # updates)

\* C33: in a fan-out the destinations are partitioned into consecutive
\* batches of at most batch_size; a batch starts only when every send of
\* the batch before it has finished, so at most batch_size sends are in
\* flight; the 2 s sleep separates consecutive batches and does not follow
\* the last batch.
C33_BatchBarrier ==
  [][ /\ Len(tasks') <= batch_size
      /\ BatchStarts /\ pc = "gather" => AllReturned
      /\ BatchStarts /\ i' # 0 => pc = "sleep2"
      /\ pc = "sleep2" /\ pc' # "sleep2" => BatchStarts
      /\ LoopEnds => \A c \in Channels :
                       /\ dispatched'[c] <= 1
                       /\ c \in stable => dispatched'[c] = 1
    ]_vars


\* process_due_posts returns normally after its last post.
ReturnsAfterPosts == pc = "sleep1" /\ pc' = "idle" /\ logged_error' # "update"

\* cleanup_posted_content is called.
CleanupCalled ==
  \/ cleanup_counter' = 0 /\ cleanup_counter # 0
  \/ logged_error' = "cleanup" /\ cleanup_counter' # cleanup_counter

\* C34: cleanup_counter advances only when process_due_posts returns
\* normally and is set to 0 only when cleanup_posted_content returns;
\* cleanup is called when the counter reaches cleanup_every, so after the
\* 2nd cycle that completed since the last cleanup, and only when no cycle
\* is in progress.
C34_CleanupEverySecond ==
  [][ /\ CycleAborts => cleanup_counter' = cleanup_counter
      /\ cleanup_counter' # cleanup_counter =>
           /\ pc \in {"idle", "sleep1"}
           /\ pc' = "idle"
           /\ logged_error' \in {"none", "cleanup"}
           /\ \/ cleanup_counter' = cleanup_counter + 1
              \/ cleanup_counter' = 0 /\ logged_error' = "none"
      /\ cleanup_counter' = 0 /\ cleanup_counter # 0 =>
           cleanup_counter + 1 >= cleanup_every
      /\ ReturnsAfterPosts =>
           /\ cleanup_counter' # cleanup_counter
           /\ cleanup_counter + 1 = cleanup_every => cleanup_counter' = 0 \/ logged_error' = "cleanup"
           /\ cleanup_counter + 1 < cleanup_every => cleanup_counter' = cleanup_counter + 1
      /\ CleanupCalled =>
           /\ ~posting_lock'
           /\ pc' = "idle"
           /\ cycle_posts' = << >>
           /\ tasks' = << >>
    ]_vars

\* A cleanup has removed the only post, one cycle has completed since, and
\* the cycle after it was aborted by the due query: the counter is still 1.
C34_Witness ==
  /\ cleanup_counter = 1
  /\ logged_error = "query"
  /\ seq = 1
  /\ posts = << >>


\* A poll cycle is in progress.
InCycle == pc # "idle"

\* The pending posts a running cycle has not fetched.
LeftPending ==
  { p \in DOMAIN posts : posts[p].posted = 0 /\ p \notin Fetched(cycle_posts) }

\* C35: a poll cycle fetches, and starts fan-outs for, at most due_limit
\* posts, which are due pending posts none of which is scheduled later than
\* a due post it leaves; the posts a running cycle did not fetch stay as
\* they are; and a due post left by a cycle is fetched by a later cycle.
C35_CapAndCarryOver ==
  /\ [](Len(cycle_posts) <= due_limit /\ idx <= Len(cycle_posts))
  /\ [][ /\ CycleStarts =>
              /\ Fetched(cycle_posts') \subseteq DuePosts
              /\ \/ Len(cycle_posts') = due_limit
                 \/ Fetched(cycle_posts') = DuePosts
              /\ \A p \in Fetched(cycle_posts') :
                   \A q \in DuePosts \ Fetched(cycle_posts') :
                     posts[p].scheduled_time <= posts[q].scheduled_time
         /\ StartsSend => cycle_posts'[idx'].id \in Fetched(cycle_posts')
         /\ InCycle =>
              /\ cycle_posts' \in {cycle_posts, << >>}
              /\ \A p \in LeftPending : p \in DOMAIN posts' /\ posts'[p] = posts[p]
       ]_vars
  /\ \A p \in PostIds :
       (InCycle /\ p \in DuePosts /\ p \in LeftPending) ~> (p \in Fetched(cycle_posts))

\* A cycle has fetched one post alone after due_limit posts scheduled no
\* later than it were delivered.
C35_Witness ==
  /\ pc = "gather"
  /\ Len(cycle_posts) = 1
  /\ Cardinality({ q \in DOMAIN posts :
                     /\ posts[q].posted = 1
                     /\ posts[q].scheduled_time <= cycle_posts[1].scheduled_time })
       = due_limit


\* C36: once delete_post or a confirmed reset has deleted a pending post, no
\* attempt of a send of that post is started, also when a running poll
\* cycle had fetched the post before it was deleted.
C36_NoSendAfterDelete ==
  [][ StartsSend => cycle_posts'[idx'].id \in DOMAIN posts' ]_vars


\* C37: schedule_batch_posts with a duration of 0 or more gives the items
\* scheduled times that do not decrease with the item index, so the last
\* item of a batch is not scheduled after the first item of the next batch.
C37_NonDecreasingItems ==
  [][ BatchCommits /\ user_sessions.duration_minutes >= 0 =>
        LET N == Len(user_sessions.posts)
        IN \A a \in 0..(N - 1) : \A b \in 0..(N - 1) :
             a < b => PlannedTime(a) <= PlannedTime(b) ]_vars


\* The time of day a post's scheduled_time is displayed as.
Displayed(t) == strftime_time(utc_to_ist(t))

\* C38: the preview shown at "Done" is what "Confirm" commits.  In bulk mode
\* its entries are the displayed scheduled times of the first
\* min(preview_limit, N) created posts; in batch mode entry b gives the
\* displayed scheduled time of the first post of batch b and the range of
\* the posts created for that batch, for the first min(preview_limit,
\* num_batches) batches; whatever steps were taken since the preview.
C38_PreviewIsCommitted ==
  [][ /\ BulkCommits =>
           LET N == Len(user_sessions.posts)
           IN /\ Len(preview) = Min(preview_limit, N)
              /\ \A k \in DOMAIN preview : preview[k] = Displayed(PlannedTime(k - 1))
      /\ BatchCommits =>
           LET N == Len(user_sessions.posts)
               B == user_sessions.batch_size
           IN /\ Len(preview) = Min(preview_limit, CeilDiv(N, B))
              /\ \A b \in DOMAIN preview :
                   /\ preview[b].time = Displayed(PlannedTime(preview[b].batch_start - 1))
                   /\ preview[b].batch_start..preview[b].batch_end
                        = { k + 1 : k \in ItemsOfBatch(b - 1, N, B) }
                   /\ \A k \in ItemsOfBatch(b - 1, N, B) :
                        PlannedTime(k) = PlannedTime(preview[b].batch_start - 1)
                                         + two_seconds * (k + 1 - preview[b].batch_start)
    ]_vars

\* More posts than the preview has entries were committed in bulk mode and
\* the reply failed, so the confirmation prompt with its preview is still
\* open.
C38_Witness ==
  /\ user_sessions.mode = "bulk"
  /\ user_sessions.step = "bulk_confirm"
  /\ outcome = "scheduled: TelegramError"
  /\ Len(user_sessions.posts) > preview_limit
  /\ Len(preview) = preview_limit
  /\ seq = Len(user_sessions.posts)
  /\ user_sessions.duration_minutes > 0


(***************************************************************************)
(* Updates by user: every handler starts with                              *)
(*   if update.effective_user.id != scheduler.admin_id: return             *)
(***************************************************************************)
\* ADMIN_ID of the environment
admin_id == 1

\* Fault: the handlers without their admin check.
Authorized_anyone(user) == TRUE

\* not (update.effective_user.id != scheduler.admin_id)
Authorized(user) == user = admin_id

\* The handler returns at its admin check: no reply, no session is created.
Ignored(user) ==
  /\ ~Authorized(user)
  /\ outcome' = "ignored"
  /\ UNCHANGED << store_vars, user_sessions, preview, now, poster_vars, obs_vars >>

\* An update from `user`: a message of an exact flow, /cancel, /addchannel
\* or /removechannel of the first destination, /delete or /reset confirm.
Update(user) ==
  \/ Authorized(user) /\ ChooseExact
  \/ Authorized(user) /\ ExactTime(0)
  \/ Authorized(user) /\ ExactContent
  \/ Authorized(user) /\ ExactConfirm
  \/ Authorized(user) /\ Cancel
  \/ Authorized(user) /\ AddChannel(1)
  \/ Authorized(user) /\ RemoveChannel(1)
  \/ Authorized(user) /\ \E id \in PostIds : DeletePost(id)
  \/ Authorized(user) /\ ResetConfirm
  \/ Ignored(user)

InitAdmin == InitWith(AllActive(1))

NextAdmin == \E user \in 1..MaxUsers : Update(user)

SpecAdmin == InitAdmin /\ [][NextAdmin]_vars

\* C39: an update from a user who is not the admin changes neither the
\* sessions nor the posts nor the destinations.
C39_NonAdminChangesNothing ==
  [][ \A user \in (1..MaxUsers) \ {admin_id} :
        Update(user) => UNCHANGED << user_sessions, posts, seq, channels, channel_ids >>
    ]_vars

\* An update of another user has been ignored while the admin's session is
\* in a flow, a post is pending and a destination is inactive.
C39_Witness ==
  /\ outcome = "ignored"
  /\ user_sessions.step = "exact_confirm"
  /\ \E p \in DOMAIN posts : posts[p].posted = 0
  /\ \E k \in DOMAIN channels : channels[k].active = 0


\* Modes and destinations: the choice of each of the four modes, with and
\* without a channel, the bulk, exact and duration flows, and /addchannel
\* and /removechannel of the first destination, from a store without
\* channels.
InitModes == InitWith(AllActive(0))

NextModes ==
  \/ ComposeBulk
  \/ ComposeSingle
  \/ ChooseBatch
  \/ ChooseNoChannels
  \/ Cancel
  \/ AddChannel(1)
  \/ RemoveChannel(1)

SpecModes == InitModes /\ [][NextModes]_vars


\* This step creates posts (a commit of a compose session).
CreatesPosts == seq' > seq

\* C40: at choose_mode with no active destination the choice of a mode, as
\* every other step, leaves the session at choose_mode with mode None; a
\* mode is entered only with an active destination; a post is created with
\* total_channels = len(channel_ids) of that moment; and the session is in
\* a mode without an active destination only when a destination's record
\* is inactive, that is after a removal.
C40_ModeNeedsChannel ==
  /\ [](user_sessions.step # "choose_mode" /\ Len(channel_ids) = 0
          => \E k \in DOMAIN channels : channels[k].active = 0)
  /\ [][ /\ user_sessions.step = "choose_mode" /\ Len(channel_ids) = 0 =>
              /\ user_sessions'.step = "choose_mode"
              /\ user_sessions'.mode = "None"
         /\ user_sessions.step = "choose_mode" /\ user_sessions'.step # "choose_mode" =>
              Len(channel_ids) >= 1
         /\ CreatesPosts =>
              \A p \in (seq + 1)..seq' :
                /\ posts'[p].total_channels = Len(channel_ids)
                /\ posts'[p].total_channels = 0 =>
                     \E k \in DOMAIN channels : channels[k].active = 0
       ]_vars

\* A mode was refused for want of a channel after a post had been created
\* with one destination.
C40_Witness ==
  /\ outcome = "no_channels"
  /\ user_sessions = NewSession
  /\ Len(channel_ids) = 0
  /\ \E p \in DOMAIN posts : posts[p].total_channels >= 1

=============================================================================
